---- MODULE Spec2Model ----
(***************************************************************************)
(* Model of the embedded agent run pipeline of                            *)
(* src/src/agents/pi-embedded-runner.ts: runEmbeddedPiAgent (the run      *)
(* orchestrator, its two nested lanes, the Active Run Registry, abort and *)
(* timeout) and subscribeEmbeddedPiSession (the stream interpreter and    *)
(* the compaction-retry coordinator).                                     *)
(*                                                                         *)
(* Strings that the code only compares, trims and prefixes (session keys, *)
(* lane names) are sequences of tokens; " " is the whitespace token and   *)
(* "session:" the prefix that resolveSessionLane looks for.               *)
(***************************************************************************)
EXTENDS Integers, Sequences, FiniteSets, TLC

\* ------------------------------------------------------------------ bounds
\* Number of runEmbeddedPiAgent calls submitted.
NRuns == 2

\* Number of out-of-band abortEmbeddedPiRun calls made by other code.
MaxAbortCalls == 2

\* Cap on the pending-retry counter (the code's counter is unbounded).
MaxPendingRetry == 2

\* Message and tool events the sessions deliver, all subscriptions together.
MaxStreamEvents == 5

Runs == 1..NRuns

\* ------------------------------------------------------- run request inputs
WS == " "

\* String.prototype.trim on a token string.
RECURSIVE TrimLeft(_)
TrimLeft(s) ==
    IF s # <<>> /\ Head(s) = WS THEN TrimLeft(Tail(s)) ELSE s

RECURSIVE TrimRight(_)
TrimRight(s) ==
    IF s # <<>> /\ s[Len(s)] = WS THEN TrimRight(SubSeq(s, 1, Len(s) - 1)) ELSE s

Trim(s) == TrimRight(TrimLeft(s))

\* The run requests the callers make: sessionId, sessionKey ("" when absent),
\* lane ("" when absent), whether an abortSignal is passed, enforceFinalTag,
\* blockReplyBreak ("" when absent) and whether onBlockReply and onPartialReply
\* are passed.
RunInputs ==
    { [sessionId |-> <<"a">>, sessionKey |-> <<>>, lane |-> <<>>, hasSignal |-> FALSE,
       enforceFinalTag |-> FALSE, blockReplyBreak |-> "", hasOnBlockReply |-> FALSE,
       hasOnPartialReply |-> FALSE,
       verboseLevel |-> "off", hasOnToolResult |-> FALSE,
       shouldEmitToolResult |-> "undefined",
       workspaceDir |-> "wsA"],
      [sessionId |-> <<"a">>, sessionKey |-> <<WS, "session:", "a">>, lane |-> <<WS>>,
       hasSignal |-> TRUE,
       enforceFinalTag |-> FALSE, blockReplyBreak |-> "message_end",
       hasOnBlockReply |-> TRUE, hasOnPartialReply |-> TRUE,
       verboseLevel |-> "off", hasOnToolResult |-> FALSE,
       shouldEmitToolResult |-> "undefined",
       workspaceDir |-> "wsA"],
      [sessionId |-> <<"a">>, sessionKey |-> <<"b">>, lane |-> <<"cron">>,
       hasSignal |-> FALSE,
       enforceFinalTag |-> TRUE, blockReplyBreak |-> "message_end",
       hasOnBlockReply |-> FALSE, hasOnPartialReply |-> FALSE,
       verboseLevel |-> "off", hasOnToolResult |-> FALSE,
       shouldEmitToolResult |-> "undefined",
       workspaceDir |-> "wsB"],
      [sessionId |-> <<"b">>, sessionKey |-> <<>>, lane |-> <<>>, hasSignal |-> TRUE,
       enforceFinalTag |-> TRUE, blockReplyBreak |-> "text_end",
       hasOnBlockReply |-> TRUE, hasOnPartialReply |-> TRUE,
       verboseLevel |-> "off", hasOnToolResult |-> FALSE,
       shouldEmitToolResult |-> "undefined",
       workspaceDir |-> "wsA"] }

NoParams ==
    [sessionId |-> <<>>, sessionKey |-> <<>>, lane |-> <<>>, hasSignal |-> FALSE,
     enforceFinalTag |-> FALSE, blockReplyBreak |-> "", hasOnBlockReply |-> FALSE,
     hasOnPartialReply |-> FALSE,
       verboseLevel |-> "off", hasOnToolResult |-> FALSE,
       shouldEmitToolResult |-> "undefined",
       workspaceDir |-> ""]

SessionIds == { i.sessionId : i \in RunInputs }

resolveSessionLane(key) ==
    LET cleaned == IF Trim(key) # <<>> THEN Trim(key) ELSE <<"main">>
    IN  IF Head(cleaned) = "session:" THEN cleaned ELSE <<"session:">> \o cleaned

resolveGlobalLane(lane) ==
    LET cleaned == Trim(lane)
    IN  IF cleaned # <<>> THEN cleaned ELSE <<"main">>

\* params.sessionKey?.trim() || params.sessionId
SessionKeyOrId(inp) ==
    IF Trim(inp.sessionKey) # <<>> THEN Trim(inp.sessionKey) ELSE inp.sessionId

\* Mutant: the session lane is taken from the session id alone.
SessionLaneForIdOnly(inp) == resolveSessionLane(inp.sessionId)

\* const sessionLane = resolveSessionLane(params.sessionKey?.trim() || params.sessionId)
SessionLaneFor(inp) == resolveSessionLane(SessionKeyOrId(inp))

LaneNames ==
    { resolveSessionLane(SessionKeyOrId(i)) : i \in RunInputs }
        \cup { resolveSessionLane(i.sessionId) : i \in RunInputs }
        \cup { resolveGlobalLane(i.lane) : i \in RunInputs }

\* ------------------------------------------------------------------- state
VARIABLES
    nextRun,            \* index of the next runEmbeddedPiAgent call
    params,             \* params of each submitted run
    laneQueue,          \* command queue: pending tasks of each lane, FIFO
    laneActive,         \* command queue: the task a lane is executing
    pc,                 \* position of each run in runEmbeddedPiAgent
    ACTIVE_EMBEDDED_RUNS, \* session id -> queueHandle (named by its run), 0 = none
    aborted,            \* let aborted
    sessionAbortCalls,  \* number of session.abort() requests a session got
    abortTimer,         \* the timeout timer
    abortWarnTimer,     \* the secondary warning timer
    signalAborted,      \* params.abortSignal.aborted
    listenerAttached,   \* onAbort is attached to params.abortSignal
    session,            \* the agent session: "none", "open", "disposed"
    subscribed,         \* the stream handler is subscribed to the session
    promptError,        \* let promptError (TRUE when an error was captured)
    outcome,            \* how the run's promise settled
    abortCallsLeft,     \* abortEmbeddedPiRun calls other code may still make
    settledAfterTimeout, \* history: the timeout had fired when session.prompt settled
    handleAtCleanup,    \* history: the registry entry the run's cleanup found
    lastEvent,          \* history: the last stream event handled, and whether its
                        \* handler resolved the compaction promise
    compactionInFlight,
    pendingCompactionRetry,
    compactionRetryPromise, \* "null", or "pending" (with compactionRetryResolve)
    assistantTexts,     \* the finalized text blocks of each subscription
    toolMetas,          \* the tool records of each subscription
    toolMetaById,       \* tool call id -> meta
    deltaBuffer,        \* the raw streamed text of the current block
    lastStreamedAssistant, \* dedupe value of the partial replies
    lastBlockReplyText, \* dedupe value of the block replies
    assistantTextBaseline, \* length of assistantTexts at the last message end
    streamEvents,       \* number of message and tool events the sessions delivered
    partialReplies,     \* history: the payloads params.onPartialReply was called with
    blockReplies,       \* history: the payloads params.onBlockReply was called with
    forwardedResult,    \* the result in the last tool event that emitAgentEvent got
    payloads,           \* the payloads of the value that the run returned
    deltasSinceReset,   \* history: the deltas of the text events handled since
                        \* deltaBuffer was last emptied, in order
    blocksSinceMessageEnd, \* history: the number of blocks finalized since the last
                        \* message_end or compaction retry
    streaming,          \* what each session's model is streaming, and how far it is
    cwd,                \* process.cwd()
    prevCwd,            \* per run: the directory its body found ("none" before)
    envOverrides,       \* the runs whose skill overrides are set in process.env
    silentCall,         \* a call of isSilentReplyText: its arguments and its result
    toolResultCalls,    \* history: the payloads params.onToolResult was called with
    handlerThrew,       \* per run: an exception left the stream handler
    unhandledRejections, \* per run: rejected observer promises that nothing handles
    nodeProcess,        \* the Node process: "running" or "exited"
    handleCall,         \* the last call of queueEmbeddedPiMessage or abortEmbeddedPiRun
    queuedMessages,     \* per run: number of session.queueMessage calls
    earBoostActive,     \* AppState.earBoostActive
    earBoostTask,       \* AppState.earBoostTask: a task of earTasks, 0 = nil
    earTasks,           \* the tasks that triggerVoiceEars created
    earTtlLeft          \* history: what is left of the ttl of the last trigger

orchVars ==
    << nextRun, params, laneQueue, laneActive, pc, ACTIVE_EMBEDDED_RUNS, aborted,
       sessionAbortCalls, abortTimer, abortWarnTimer, signalAborted,
       listenerAttached, session, subscribed, promptError, outcome, abortCallsLeft,
       settledAfterTimeout, handleAtCleanup >>

compVars ==
    << compactionInFlight, pendingCompactionRetry, compactionRetryPromise, lastEvent >>

streamVars ==
    << assistantTexts, toolMetas, toolMetaById, deltaBuffer, lastStreamedAssistant,
       lastBlockReplyText, assistantTextBaseline >>

observerVars ==
    << partialReplies, blockReplies, forwardedResult, payloads, deltasSinceReset,
       blocksSinceMessageEnd >>

processVars == << cwd, prevCwd, envOverrides >>

deliveryVars == << toolResultCalls, handlerThrew, unhandledRejections, nodeProcess >>

handleVars == << handleCall, queuedMessages >>

earVars == << earBoostActive, earBoostTask, earTasks, earTtlLeft >>

vars ==
    << orchVars, compVars, streamVars, streamEvents, observerVars, streaming,
       processVars, silentCall, deliveryVars, handleVars, earVars >>

NoTask == [kind |-> "none", run |-> 0]
SessionTask(r) == [kind |-> "session", run |-> r]
GlobalTask(r) == [kind |-> "global", run |-> r]

NoOutcome == [kind |-> "none", aborted |-> FALSE, error |-> "none"]
Returned(a) == [kind |-> "returned", aborted |-> a, error |-> "none"]
Rejected(e) == [kind |-> "rejected", aborted |-> FALSE, error |-> e]

\* let x: string | undefined, and the empty Map
Undefined == << "undefined" >>
EmptyMap == [k \in {} |-> Undefined]

NoEvent == [kind |-> "none", resolved |-> FALSE, cleared |-> {}]

\* The result of a tool event that carries none (undefined), and the state in
\* which no tool event has forwarded a result.
NoResult == [undefined |-> TRUE]
NothingForwarded == [original |-> NoResult, argument |-> NoResult, sanitized |-> NoResult]

\* No call of isSilentReplyText is under way.
NoCall == [text |-> Undefined, token |-> Undefined, called |-> TRUE, result |-> FALSE]

\* A session whose stream the model does not script.
NotStreaming == [script |-> <<>>, segment |-> 0, offset |-> 0, errorText |-> Undefined]

MessageOrToolEvent == [kind |-> "message_or_tool", resolved |-> FALSE, cleared |-> {}]

\* The lanes of a submitted run.
SessionLaneOf(r) == SessionLaneFor(params[r])

\* const globalLane = resolveGlobalLane(params.lane)
GlobalLaneOf(r) == resolveGlobalLane(params[r].lane)

\* Positions between the start of the run body (the global-lane task) and its end.
BodyPcs ==
    { "resolving", "preparing", "opening", "sanitizing", "registering", "prompting",
      "microtask", "waiting", "released" }

InBody(r) == pc[r] \in BodyPcs

\* No out-of-band call has been made.
NoHandleCall ==
    [fn |-> "none", sessionId |-> <<>>, handle |-> 0, isStreaming |-> FALSE,
     returned |-> FALSE]

\* No observer has been called or has failed, no out-of-band call was made, and
\* the app's voice ears are off.
InitExtras ==
    /\ toolResultCalls = [r \in Runs |-> <<>>]
    /\ handlerThrew = [r \in Runs |-> FALSE]
    /\ unhandledRejections = [r \in Runs |-> 0]
    /\ nodeProcess = "running"
    /\ handleCall = NoHandleCall
    /\ queuedMessages = [r \in Runs |-> 0]
    /\ earBoostActive = FALSE
    /\ earBoostTask = 0
    /\ earTasks = <<>>
    /\ earTtlLeft = -1

\* Nothing submitted, every lane idle, the registry empty.
InitRuns ==
    /\ InitExtras
    /\ params = [r \in Runs |-> NoParams]
    /\ laneQueue = [l \in LaneNames |-> <<>>]
    /\ laneActive = [l \in LaneNames |-> NoTask]
    /\ pc = [r \in Runs |-> "idle"]
    /\ ACTIVE_EMBEDDED_RUNS = [s \in SessionIds |-> 0]
    /\ aborted = [r \in Runs |-> FALSE]
    /\ sessionAbortCalls = [r \in Runs |-> 0]
    /\ abortTimer = [r \in Runs |-> "unset"]
    /\ abortWarnTimer = [r \in Runs |-> "unset"]
    /\ signalAborted = [r \in Runs |-> FALSE]
    /\ listenerAttached = [r \in Runs |-> FALSE]
    /\ session = [r \in Runs |-> "none"]
    /\ subscribed = [r \in Runs |-> FALSE]
    /\ promptError = [r \in Runs |-> FALSE]
    /\ outcome = [r \in Runs |-> NoOutcome]
    /\ abortCallsLeft = MaxAbortCalls
    /\ settledAfterTimeout = [r \in Runs |-> FALSE]
    /\ handleAtCleanup = [r \in Runs |-> 0]
    /\ lastEvent = [r \in Runs |-> NoEvent]
    /\ compactionInFlight = [r \in Runs |-> FALSE]
    /\ pendingCompactionRetry = [r \in Runs |-> 0]
    /\ compactionRetryPromise = [r \in Runs |-> "null"]
    /\ assistantTexts = [r \in Runs |-> <<>>]
    /\ toolMetas = [r \in Runs |-> <<>>]
    /\ toolMetaById = [r \in Runs |-> EmptyMap]
    /\ deltaBuffer = [r \in Runs |-> <<>>]
    /\ lastStreamedAssistant = [r \in Runs |-> Undefined]
    /\ lastBlockReplyText = [r \in Runs |-> Undefined]
    /\ assistantTextBaseline = [r \in Runs |-> 0]
    /\ streamEvents = 0
    /\ partialReplies = [r \in Runs |-> <<>>]
    /\ blockReplies = [r \in Runs |-> <<>>]
    /\ forwardedResult = [r \in Runs |-> NothingForwarded]
    /\ payloads = [r \in Runs |-> <<>>]
    /\ deltasSinceReset = [r \in Runs |-> <<>>]
    /\ blocksSinceMessageEnd = [r \in Runs |-> 0]
    /\ streaming = [r \in Runs |-> NotStreaming]
    /\ cwd = "home"
    /\ prevCwd = [r \in Runs |-> "none"]
    /\ envOverrides = {}

InitState == InitRuns /\ silentCall = NoCall

Init == nextRun = 1 /\ InitState

\* ------------------------------------------------------------ command queue
\* enqueueCommandInLane(lane, task): append to the lane's pending list.
enqueueCommandInLane(q, lane, task) == [q EXCEPT ![lane] = Append(@, task)]

\* The lanes a run's settling tasks leave: the inner (global lane) task settles
\* with the body, and the outer (session lane) task returned the inner promise.
LanesAfterSettle(r) ==
    [l \in LaneNames |->
        IF laneActive[l] \in {SessionTask(r), GlobalTask(r)} THEN NoTask ELSE laneActive[l]]

\* Groups of variables, for the UNCHANGED clauses.
laneVars == << laneQueue, laneActive >>
abortVars == << aborted, sessionAbortCalls >>
timerVars == << abortTimer, abortWarnTimer >>
signalVars == << signalAborted, listenerAttached >>
sessionVars == << session, subscribed >>

\* ------------------------------------------------------------- orchestrator
\* runEmbeddedPiAgent(params): the outer task goes to the session lane.
Submit(r, inp) ==
    /\ nextRun = r
    /\ nextRun' = r + 1
    /\ params' = [params EXCEPT ![r] = inp]
    /\ laneQueue' = enqueueCommandInLane(laneQueue, SessionLaneFor(inp), SessionTask(r))
    /\ pc' = [pc EXCEPT ![r] = "queuedSession"]
    /\ UNCHANGED << laneActive, ACTIVE_EMBEDDED_RUNS, abortVars, timerVars, signalVars,
                    sessionVars, promptError, outcome, abortCallsLeft,
                    settledAfterTimeout, handleAtCleanup, compVars, streamVars,
                    streamEvents,
                    observerVars, streaming, processVars,
                    silentCall, deliveryVars, handleVars, earVars >>

\* Mutant: the outer task runs the body itself instead of enqueueing it into the
\* global lane.
StartSessionTaskDirect(q, r) ==
    /\ laneQueue' = q
    /\ pc' = [pc EXCEPT ![r] = "resolving"]
    /\ prevCwd' = [prevCwd EXCEPT ![r] = cwd]

\* The outer task's body: enqueueGlobal(async () => {...}).
StartSessionTask(q, r) ==
    /\ laneQueue' = enqueueCommandInLane(q, GlobalLaneOf(r), GlobalTask(r))
    /\ pc' = [pc EXCEPT ![r] = "queuedGlobal"]
    /\ UNCHANGED prevCwd

\* The inner task's body starts: started, prevCwd, provider and model ids.
StartGlobalTask(q, r) ==
    /\ laneQueue' = q
    /\ pc' = [pc EXCEPT ![r] = "resolving"]
    /\ prevCwd' = [prevCwd EXCEPT ![r] = cwd]

\* A lane that executes nothing takes its oldest pending task and starts it.
DrainLane(l) ==
    /\ laneActive[l] = NoTask
    /\ laneQueue[l] # <<>>
    /\ LET t == Head(laneQueue[l])
           q == [laneQueue EXCEPT ![l] = Tail(@)]
       IN  /\ laneActive' = [laneActive EXCEPT ![l] = t]
           /\ IF t.kind = "session" THEN StartSessionTask(q, t.run)
                                     ELSE StartGlobalTask(q, t.run)
    /\ UNCHANGED << nextRun, params, ACTIVE_EMBEDDED_RUNS, abortVars, timerVars,
                    signalVars, sessionVars, promptError, outcome, abortCallsLeft,
                    settledAfterTimeout, handleAtCleanup, compVars, streamVars,
                    streamEvents,
                    observerVars, streaming, cwd, envOverrides,
                    silentCall, deliveryVars, handleVars, earVars >>

\* Mutant: the outer finally restores the overrides and stays where it is.
OuterFinallyEnvOnly(r) ==
    /\ UNCHANGED cwd
    /\ envOverrides' = envOverrides \ { r }

\* The outer finally block: restoreSkillEnv?.(); process.chdir(prevCwd)
OuterFinally(r) ==
    /\ cwd' = prevCwd[r]
    /\ envOverrides' = envOverrides \ { r }

\* Mutant: the rejected run's tasks stay in their lanes.
RejectHoldingLanes(r, e) ==
    /\ pc' = [pc EXCEPT ![r] = "done"]
    /\ outcome' = [outcome EXCEPT ![r] = Rejected(e)]
    /\ UNCHANGED laneActive

\* The body's promise rejects with error e; both of the run's lane tasks settle.
Reject(r, e) ==
    /\ pc' = [pc EXCEPT ![r] = "done"]
    /\ outcome' = [outcome EXCEPT ![r] = Rejected(e)]
    /\ laneActive' = LanesAfterSettle(r)

\* The body goes on to its next await.
Goto(r, next) ==
    /\ pc' = [pc EXCEPT ![r] = next]
    /\ UNCHANGED << outcome, laneActive >>

\* Mutant: the directory is changed before the model is resolved.
ResolveModelAfterChdir(r, ok) ==
    /\ pc[r] = "resolving"
    /\ IF ok THEN Goto(r, "preparing") ELSE Reject(r, "model")
    /\ cwd' = params[r].workspaceDir
    /\ UNCHANGED << nextRun, params, laneQueue, ACTIVE_EMBEDDED_RUNS, abortVars,
                    timerVars, signalVars, sessionVars, promptError, abortCallsLeft,
                    settledAfterTimeout, handleAtCleanup, compVars, streamVars,
                    streamEvents,
                    observerVars, streaming, prevCwd, envOverrides,
                    silentCall, deliveryVars, handleVars, earVars >>

\* ensureClawdisModelsJson, resolveModel, getApiKeyForModel.
ResolveModel(r, ok) ==
    /\ pc[r] = "resolving"
    /\ IF ok THEN Goto(r, "preparing") ELSE Reject(r, "model")
    /\ UNCHANGED << nextRun, params, laneQueue, ACTIVE_EMBEDDED_RUNS, abortVars,
                    timerVars, signalVars, sessionVars, promptError, abortCallsLeft,
                    settledAfterTimeout, handleAtCleanup, compVars, streamVars,
                    streamEvents,
                    observerVars, streaming, processVars,
                    silentCall, deliveryVars, handleVars, earVars >>

\* fs.mkdir and ensureSessionHeader.
PrepareWorkspace(r, ok) ==
    /\ pc[r] = "preparing"
    /\ IF ok THEN Goto(r, "opening") ELSE Reject(r, "workspace")
    /\ UNCHANGED << nextRun, params, laneQueue, ACTIVE_EMBEDDED_RUNS, abortVars,
                    timerVars, signalVars, sessionVars, promptError, abortCallsLeft,
                    settledAfterTimeout, handleAtCleanup, compVars, streamVars,
                    streamEvents,
                    observerVars, streaming, processVars,
                    silentCall, deliveryVars, handleVars, earVars >>

\* chdir, skills and system prompt, createAgentSession.
OpenSession(r, ok) ==
    /\ pc[r] = "opening"
    /\ IF ok
         THEN /\ Goto(r, "sanitizing")
              /\ session' = [session EXCEPT ![r] = "open"]
              /\ cwd' = params[r].workspaceDir
              /\ envOverrides' = envOverrides \cup { r }
         ELSE /\ Reject(r, "session")
              /\ OuterFinally(r)
              /\ UNCHANGED session
    /\ UNCHANGED << nextRun, params, laneQueue, ACTIVE_EMBEDDED_RUNS, abortVars,
                    timerVars, signalVars, subscribed, promptError, abortCallsLeft,
                    settledAfterTimeout, handleAtCleanup, compVars, streamVars,
                    streamEvents,
                    observerVars, streaming, prevCwd,
                    silentCall, deliveryVars, handleVars, earVars >>

\* sanitizeSessionMessagesImages(session.messages) and replaceMessages.
SanitizeHistory(r, ok) ==
    /\ pc[r] = "sanitizing"
    /\ IF ok THEN Goto(r, "registering") /\ UNCHANGED << cwd, envOverrides >>
             ELSE Reject(r, "history") /\ OuterFinally(r)
    /\ UNCHANGED << nextRun, params, laneQueue, ACTIVE_EMBEDDED_RUNS, abortVars,
                    timerVars, signalVars, sessionVars, promptError, abortCallsLeft,
                    settledAfterTimeout, handleAtCleanup, compVars, streamVars,
                    streamEvents,
                    observerVars, streaming, prevCwd,
                    silentCall, deliveryVars, handleVars, earVars >>

\* --------------------------------------------------------- abort and timeout
\* Mutant: abortRun asks the session to stop and forgets the aborted flag.
abortRunNoFlag(r) ==
    /\ UNCHANGED aborted
    /\ sessionAbortCalls' = [sessionAbortCalls EXCEPT ![r] = @ + 1]

\* const abortRun = () => { aborted = true; void session.abort(); }
abortRun(r) ==
    /\ aborted' = [aborted EXCEPT ![r] = TRUE]
    /\ sessionAbortCalls' = [sessionAbortCalls EXCEPT ![r] = @ + 1]

\* From the registration of the handle to the issue of the prompt: one
\* synchronous stretch. how: "ok", or the call that throws ("subscribe":
\* subscribeEmbeddedPiSession, "listener": abortSignal.addEventListener).
RegisterAndPrompt(r, how) ==
    /\ pc[r] = "registering"
    /\ ACTIVE_EMBEDDED_RUNS' =
         [ACTIVE_EMBEDDED_RUNS EXCEPT ![params[r].sessionId] = r]
    /\ IF how = "subscribe"
         THEN /\ Reject(r, "subscribe")
              /\ aborted' = [aborted EXCEPT ![r] = signalAborted[r]]
              /\ UNCHANGED << sessionAbortCalls, abortTimer, listenerAttached,
                              subscribed >>
         ELSE /\ subscribed' = [subscribed EXCEPT ![r] = TRUE]
              /\ abortTimer' = [abortTimer EXCEPT ![r] = "armed"]
              /\ IF params[r].hasSignal /\ signalAborted[r]
                   THEN /\ how = "ok"
                        /\ abortRun(r)
                        /\ Goto(r, "prompting")
                        /\ UNCHANGED listenerAttached
                   ELSE /\ aborted' = [aborted EXCEPT ![r] = FALSE]
                        /\ UNCHANGED sessionAbortCalls
                        /\ IF how = "listener"
                             THEN /\ params[r].hasSignal
                                  /\ Reject(r, "listener")
                                  /\ UNCHANGED listenerAttached
                             ELSE /\ listenerAttached' =
                                       [listenerAttached EXCEPT ![r] = params[r].hasSignal]
                                  /\ Goto(r, "prompting")
    /\ IF pc'[r] = "done" THEN OuterFinally(r) ELSE UNCHANGED << cwd, envOverrides >>
    /\ UNCHANGED << nextRun, params, laneQueue, abortWarnTimer, signalAborted,
                    session, promptError, abortCallsLeft, settledAfterTimeout,
                    handleAtCleanup, compVars, streamVars,
                    streamEvents,
                    observerVars, streaming, prevCwd,
                    silentCall, deliveryVars, handleVars, earVars >>

\* The timeout timer's callback.
TimerFire(r) ==
    /\ abortTimer[r] = "armed"
    /\ abortTimer' = [abortTimer EXCEPT ![r] = "fired"]
    /\ abortRun(r)
    /\ abortWarnTimer' =
         [abortWarnTimer EXCEPT ![r] = IF @ = "unset" THEN "armed" ELSE @]
    /\ UNCHANGED << nextRun, params, laneVars, pc, ACTIVE_EMBEDDED_RUNS, signalVars,
                    sessionVars, promptError, outcome, abortCallsLeft,
                    settledAfterTimeout, handleAtCleanup, compVars, streamVars,
                    streamEvents,
                    observerVars, streaming, processVars,
                    silentCall, deliveryVars, handleVars, earVars >>

\* The warning timer's callback: a log line when the session still streams.
WarnTimerFire(r) ==
    /\ abortWarnTimer[r] = "armed"
    /\ abortWarnTimer' = [abortWarnTimer EXCEPT ![r] = "fired"]
    /\ UNCHANGED << nextRun, params, laneVars, pc, ACTIVE_EMBEDDED_RUNS, abortVars,
                    abortTimer, signalVars, sessionVars, promptError, outcome,
                    abortCallsLeft, settledAfterTimeout, handleAtCleanup, compVars,
                    streamVars, streamEvents,
                    observerVars, streaming, processVars,
                    silentCall, deliveryVars, handleVars, earVars >>

\* Mutant: the caller's signal is never wired to abortRun after the run started.
SignalAbortUnwired(r) ==
    /\ pc[r] # "idle"
    /\ params[r].hasSignal
    /\ ~signalAborted[r]
    /\ signalAborted' = [signalAborted EXCEPT ![r] = TRUE]
    /\ UNCHANGED << nextRun, params, laneVars, pc, ACTIVE_EMBEDDED_RUNS, abortVars,
                    listenerAttached, timerVars,
                    sessionVars, promptError, outcome, abortCallsLeft,
                    settledAfterTimeout, handleAtCleanup, compVars, streamVars,
                    streamEvents,
                    observerVars, streaming, processVars,
                    silentCall, deliveryVars, handleVars, earVars >>

\* The caller aborts params.abortSignal; the once-listener onAbort runs if attached.
SignalAbort(r) ==
    /\ pc[r] # "idle"
    /\ params[r].hasSignal
    /\ ~signalAborted[r]
    /\ signalAborted' = [signalAborted EXCEPT ![r] = TRUE]
    /\ IF listenerAttached[r]
         THEN /\ abortRun(r)
              /\ listenerAttached' = [listenerAttached EXCEPT ![r] = FALSE]
         ELSE UNCHANGED << abortVars, listenerAttached >>
    /\ UNCHANGED << nextRun, params, laneVars, pc, ACTIVE_EMBEDDED_RUNS, timerVars,
                    sessionVars, promptError, outcome, abortCallsLeft,
                    settledAfterTimeout, handleAtCleanup, compVars, streamVars,
                    streamEvents,
                    observerVars, streaming, processVars,
                    silentCall, deliveryVars, handleVars, earVars >>

\* What a call of abortEmbeddedPiRun or queueEmbeddedPiMessage found and
\* returned: handle is the run whose handle the registry gave (0: none).
HandleCall(fn, sid, isStreaming, returned) ==
    [fn |-> fn, sessionId |-> sid, handle |-> ACTIVE_EMBEDDED_RUNS[sid],
     isStreaming |-> isStreaming, returned |-> returned]

\* Mutant: abortEmbeddedPiRun reports success whether or not it found a handle.
abortEmbeddedPiRunTrue(sid) ==
    /\ abortCallsLeft > 0
    /\ abortCallsLeft' = abortCallsLeft - 1
    /\ IF ACTIVE_EMBEDDED_RUNS[sid] = 0
         THEN UNCHANGED abortVars
         ELSE abortRun(ACTIVE_EMBEDDED_RUNS[sid])
    /\ handleCall' = HandleCall("abortEmbeddedPiRun", sid, FALSE, TRUE)
    /\ UNCHANGED << nextRun, params, laneVars, pc, ACTIVE_EMBEDDED_RUNS, timerVars,
                    signalVars, sessionVars, promptError, outcome,
                    settledAfterTimeout, handleAtCleanup, compVars, streamVars,
                    streamEvents,
                    observerVars, streaming, processVars,
                    silentCall, deliveryVars, queuedMessages, earVars >>

\* export function abortEmbeddedPiRun(sessionId)
abortEmbeddedPiRun(sid) ==
    /\ abortCallsLeft > 0
    /\ abortCallsLeft' = abortCallsLeft - 1
    /\ IF ACTIVE_EMBEDDED_RUNS[sid] = 0
         THEN UNCHANGED abortVars
         ELSE abortRun(ACTIVE_EMBEDDED_RUNS[sid])
    /\ handleCall' =
         HandleCall("abortEmbeddedPiRun", sid, FALSE, ACTIVE_EMBEDDED_RUNS[sid] # 0)
    /\ UNCHANGED << nextRun, params, laneVars, pc, ACTIVE_EMBEDDED_RUNS, timerVars,
                    signalVars, sessionVars, promptError, outcome,
                    settledAfterTimeout, handleAtCleanup, compVars, streamVars,
                    streamEvents,
                    observerVars, streaming, processVars,
                    silentCall, deliveryVars, queuedMessages, earVars >>

\* Mutant: the message is queued without asking whether the session streams.
queueEmbeddedPiMessageAnyway(sid, isStreaming) ==
    /\ abortCallsLeft > 0
    /\ abortCallsLeft' = abortCallsLeft - 1
    /\ ACTIVE_EMBEDDED_RUNS[sid] = 0 => ~isStreaming
    /\ \E handle \in { ACTIVE_EMBEDDED_RUNS[sid] } :
       \E returned \in { handle # 0 } :
          /\ queuedMessages' =
               IF returned THEN [queuedMessages EXCEPT ![handle] = @ + 1]
               ELSE queuedMessages
          /\ handleCall' = HandleCall("queueEmbeddedPiMessage", sid, isStreaming, returned)
    /\ UNCHANGED << nextRun, params, laneVars, pc, ACTIVE_EMBEDDED_RUNS, abortVars,
                    timerVars, signalVars, sessionVars, promptError, outcome,
                    settledAfterTimeout, handleAtCleanup, compVars, streamVars,
                    streamEvents, observerVars, streaming, processVars,
                    silentCall, deliveryVars, earVars >>

\* export function queueEmbeddedPiMessage(sessionId, text); isStreaming is what
\* handle.isStreaming() answers (the session's own state), asked only of a
\* handle that was found. The calls share the budget of abortEmbeddedPiRun.
queueEmbeddedPiMessage(sid, isStreaming) ==
    /\ abortCallsLeft > 0
    /\ abortCallsLeft' = abortCallsLeft - 1
    /\ ACTIVE_EMBEDDED_RUNS[sid] = 0 => ~isStreaming
    /\ \E handle \in { ACTIVE_EMBEDDED_RUNS[sid] } :
       \E returned \in { handle # 0 /\ isStreaming } :
          /\ queuedMessages' =
               IF returned THEN [queuedMessages EXCEPT ![handle] = @ + 1]
               ELSE queuedMessages
          /\ handleCall' = HandleCall("queueEmbeddedPiMessage", sid, isStreaming, returned)
    /\ UNCHANGED << nextRun, params, laneVars, pc, ACTIVE_EMBEDDED_RUNS, abortVars,
                    timerVars, signalVars, sessionVars, promptError, outcome,
                    settledAfterTimeout, handleAtCleanup, compVars, streamVars,
                    streamEvents, observerVars, streaming, processVars,
                    silentCall, deliveryVars, earVars >>

\* ------------------------------------------------- stream handler: the text
\* Text is a string of tokens. A tag is spelled with the tokens "<", "/", a tag
\* name and ">", with any whitespace between them, as the regular expressions
\* THINKING_TAG_RE, THINKING_OPEN_RE, THINKING_CLOSE_RE, FINAL_START_RE and
\* FINAL_END_RE allow; the name token "think" stands for think and thinking in
\* any case, "final" for final in any case. slash tells whether the expression
\* wants the "/" ("yes"), forbids it ("no") or leaves it optional ("any").
ThinkingTag == [name |-> "think", slash |-> "any"]
ThinkOpen == [name |-> "think", slash |-> "no"]
ThinkClose == [name |-> "think", slash |-> "yes"]
FinalOpen == [name |-> "final", slash |-> "no"]
FinalClose == [name |-> "final", slash |-> "yes"]

\* The plain spelling of a tag.
Spell(tag) ==
    IF tag.slash = "yes" THEN << "<", "/", tag.name, ">" >> ELSE << "<", tag.name, ">" >>

\* \s* from position i: the first position that holds no whitespace.
RECURSIVE SkipSpace(_, _)
SkipSpace(text, i) ==
    IF i <= Len(text) /\ text[i] = WS THEN SkipSpace(text, i + 1) ELSE i

\* The position where a match of the tag's expression that starts at i ends,
\* 0 when none starts there.
MatchEnd(text, i, tag) ==
    LET afterOpen == SkipSpace(text, i + 1)
        hasSlash == afterOpen <= Len(text) /\ text[afterOpen] = "/"
        atName == IF hasSlash THEN SkipSpace(text, afterOpen + 1) ELSE afterOpen
        atClose == SkipSpace(text, atName + 1)
    IN  IF /\ i <= Len(text)
           /\ text[i] = "<"
           /\ atName <= Len(text)
           /\ text[atName] = tag.name
           /\ atClose <= Len(text)
           /\ text[atClose] = ">"
           /\ (tag.slash = "yes" => hasSlash)
           /\ (tag.slash = "no" => ~hasSlash)
          THEN atClose
          ELSE 0

\* The first position from i on where a match of the tag starts (0 when there
\* is none): where re.exec finds its match.
RECURSIVE FirstMatch(_, _, _)
FirstMatch(text, i, tag) ==
    IF i > Len(text) THEN 0
    ELSE IF MatchEnd(text, i, tag) # 0 THEN i
    ELSE FirstMatch(text, i + 1, tag)

\* Index of the first match of the tag in text (0 when there is none).
IndexOf(text, tag) ==
    IF \E i \in 1..Len(text) : text[i] = tag.name THEN FirstMatch(text, 1, tag) ELSE 0

\* re.test(text)
Contains(text, tag) == IndexOf(text, tag) # 0

\* text.replace(re, "") with a regular expression that is not global.
RemoveFirst(text, tag) ==
    LET start == IndexOf(text, tag)
    IN  IF start # 0
          THEN SubSeq(text, 1, start - 1)
                 \o SubSeq(text, MatchEnd(text, start, tag) + 1, Len(text))
          ELSE text

\* The loop of stripThinkingSegments over the tag matches, from position i on:
\* text outside a thinking segment is kept, a tag without "/" opens a segment,
\* a tag with "/" closes it.
RECURSIVE CopyOutsideThinking(_, _, _)
CopyOutsideThinking(text, i, inThinking) ==
    LET tagEnd == IF i <= Len(text) /\ text[i] = "<"
                    THEN MatchEnd(text, i, ThinkingTag) ELSE 0
    IN  IF i > Len(text)
          THEN <<>>
          ELSE IF tagEnd # 0
                 THEN CopyOutsideThinking(text, tagEnd + 1,
                                          MatchEnd(text, i, ThinkOpen) # 0)
                 ELSE (IF inThinking THEN <<>> ELSE << text[i] >>)
                        \o CopyOutsideThinking(text, i + 1, inThinking)

stripThinkingSegments(text) ==
    IF text = <<>> \/ ~Contains(text, ThinkingTag)
      THEN text
      ELSE CopyOutsideThinking(text, 1, FALSE)

stripUnpairedThinkingTags(text) ==
    LET hasOpen == Contains(text, ThinkOpen)
        hasClose == Contains(text, ThinkClose)
    IN  IF text = <<>> THEN text
        ELSE IF hasOpen /\ hasClose THEN text
        ELSE IF ~hasOpen THEN RemoveFirst(text, ThinkClose)
        ELSE RemoveFirst(text, ThinkOpen)

sanitizeFinalText(text) ==
    LET hasStart == Contains(text, FinalOpen)
        hasEnd == Contains(text, FinalClose)
    IN  IF text = <<>> THEN text
        ELSE IF hasStart /\ ~hasEnd THEN RemoveFirst(text, FinalOpen)
        ELSE IF ~hasStart /\ hasEnd THEN RemoveFirst(text, FinalClose)
        ELSE text

\* Mutant: the text after the opening marker is taken up to its end, the
\* closing marker is not looked for.
extractFinalTextToEnd(text) ==
    LET cleaned == sanitizeFinalText(text)
        startMatch == IndexOf(cleaned, FinalOpen)
        startIndex == MatchEnd(cleaned, startMatch, FinalOpen)
        afterStart == SubSeq(cleaned, startIndex + 1, Len(cleaned))
    IN  IF startMatch = 0
          THEN Undefined
          ELSE afterStart

extractFinalText(text) ==
    LET cleaned == sanitizeFinalText(text)
        startMatch == IndexOf(cleaned, FinalOpen)
        startIndex == MatchEnd(cleaned, startMatch, FinalOpen)
        afterStart == SubSeq(cleaned, startIndex + 1, Len(cleaned))
        endMatch == IndexOf(afterStart, FinalClose)
        endIndex == IF endMatch # 0 THEN endMatch - 1 ELSE Len(afterStart)
    IN  IF startMatch = 0
          THEN Undefined
          ELSE SubSeq(afterStart, 1, endIndex)

\* const cleaned = params.enforceFinalTag ? stripThinkingSegments(
\*   stripUnpairedThinkingTags(raw)) : stripThinkingSegments(raw)
CleanedText(enforceFinalTag, raw) ==
    IF enforceFinalTag
      THEN stripThinkingSegments(stripUnpairedThinkingTags(raw))
      ELSE stripThinkingSegments(raw)

\* message_update: const next = params.enforceFinalTag
\*   ? (extractFinalText(cleaned)?.trim() ?? cleaned.trim()) : cleaned.trim()
NextText(enforceFinalTag, cleaned) ==
    LET final == extractFinalText(cleaned)
    IN  IF enforceFinalTag /\ final # Undefined THEN Trim(final) ELSE Trim(cleaned)

\* Mutant: with enforceFinalTag a message without final markers has no text.
MessageTextFinalOnly(enforceFinalTag, cleaned) ==
    LET final == extractFinalText(cleaned)
    IN  IF enforceFinalTag /\ cleaned # <<>>
          THEN (IF final # Undefined THEN Trim(final) ELSE <<>>)
          ELSE cleaned

\* message_end: const text = params.enforceFinalTag && cleaned
\*   ? (extractFinalText(cleaned)?.trim() ?? cleaned) : cleaned
MessageText(enforceFinalTag, cleaned) ==
    LET final == extractFinalText(cleaned)
    IN  IF enforceFinalTag /\ cleaned # <<>> /\ final # Undefined
          THEN Trim(final)
          ELSE cleaned

\* Mutant: blocks break at the end of the message unless told otherwise.
BlockReplyBreakOfMessageEnd(r) ==
    IF params[r].blockReplyBreak = "" THEN "message_end" ELSE params[r].blockReplyBreak

\* const blockReplyBreak = params.blockReplyBreak ?? "text_end"
BlockReplyBreakOf(r) ==
    IF params[r].blockReplyBreak = "" THEN "text_end" ELSE params[r].blockReplyBreak

\* What the sessions stream: the chunks of the text events, the texts of the
\* finished assistant messages, and the tool calls with the meta that
\* inferToolMetaFromArgs derives from their arguments.
Chunks ==
    { << "x" >>,
      Spell(ThinkOpen) \o << "y" >> \o Spell(ThinkClose) \o << WS >>,
      Spell(FinalOpen) \o << "z" >> \o Spell(FinalClose) }

MessageTexts == { <<>>, Spell(ThinkOpen) \o << "y" >> \o Spell(ThinkClose) \o << "x" >> }

ToolNames == { "bash" }
ToolCallIds == { "call1" }
ToolMetaValues == { Undefined, << "ls" >> }

\* splitMediaFromOutput(text): the media references of the text (the tokens
\* MediaTokens) are taken out of it and listed, what is left is trimmed.
MediaTokens == { "MEDIA:a", "MEDIA:b" }

splitMediaFromOutput(text) ==
    [text |-> Trim(SelectSeq(text, LAMBDA tok : tok \notin MediaTokens)),
     mediaUrls |-> SelectSeq(text, LAMBDA tok : tok \in MediaTokens)]

\* if (cleanedText || (mediaUrls && mediaUrls.length > 0))
Deliverable(split) == split.text # <<>> \/ split.mediaUrls # <<>>

\* The payload of an onBlockReply call, and the event it was made at.
BlockReply(split, at) == [text |-> split.text, mediaUrls |-> split.mediaUrls, at |-> at]

\* ------------------------------------------------------ tool result sanitizing
\* A tool result is an object that may have a content list of items; an item is
\* an object with a type and, by type, a text or base64 data. A string is taken
\* by its length: a text is [chars, truncated], data the number of its chars.

TOOL_RESULT_MAX_CHARS == 8000

\* { ...entry, [field]: value } and the copy of entry without a field
WithField(entry, field, value) ==
    [k \in DOMAIN entry \cup { field } |-> IF k = field THEN value ELSE entry[k]]
WithoutField(entry, field) == [k \in DOMAIN entry \ { field } |-> entry[k]]

truncateToolText(text) ==
    IF text.chars <= TOOL_RESULT_MAX_CHARS
      THEN text
      ELSE [chars |-> TOOL_RESULT_MAX_CHARS, truncated |-> TRUE]

\* Mutant: the image item is marked, its data stays.
sanitizeToolItemKeepData(item) ==
    LET type == IF "type" \in DOMAIN item THEN item.type ELSE "undefined"
        bytes == IF "data" \in DOMAIN item /\ item.data > 0 THEN item.data ELSE Undefined
    IN  IF type = "text" /\ "text" \in DOMAIN item
          THEN WithField(item, "text", truncateToolText(item.text))
        ELSE IF type = "image"
          THEN WithField(WithField(item, "bytes", bytes), "omitted", TRUE)
        ELSE item

\* The callback of content.map in sanitizeToolResult.
sanitizeToolItem(item) ==
    LET type == IF "type" \in DOMAIN item THEN item.type ELSE "undefined"
        bytes == IF "data" \in DOMAIN item /\ item.data > 0 THEN item.data ELSE Undefined
    IN  IF type = "text" /\ "text" \in DOMAIN item
          THEN WithField(item, "text", truncateToolText(item.text))
        ELSE IF type = "image"
          THEN WithField(WithField(WithoutField(item, "data"), "bytes", bytes),
                         "omitted", TRUE)
        ELSE item

\* sanitizeToolResult(result): the object it returns, and its argument after the
\* call (every write goes to a copy made by a spread, so the argument is as it
\* was).
sanitizeToolResult(result) ==
    IF result = NoResult \/ "content" \notin DOMAIN result
      THEN [returned |-> result, argument |-> result]
      ELSE [returned |->
              WithField(result, "content",
                        [i \in 1..Len(result.content) |->
                           sanitizeToolItem(result.content[i])]),
            argument |-> result]

\* The items and results that the tools of the sessions produce.
ToolItems ==
    { [type |-> "text", text |-> [chars |-> 5, truncated |-> FALSE]],
      [type |-> "text",
       text |-> [chars |-> TOOL_RESULT_MAX_CHARS + 1, truncated |-> FALSE]],
      [type |-> "image", data |-> 3, mimeType |-> "image/png"],
      [type |-> "image", data |-> 0, mimeType |-> "image/png"],
      [type |-> "image", mimeType |-> "image/png"],
      [type |-> "resource", data |-> 2] }

ToolResults ==
    { NoResult, [details |-> "d"], [content |-> <<>>] }
      \cup { [content |-> << item >>, details |-> "d"] : item \in ToolItems }
      \cup { [content |-> << [type |-> "text", text |-> [chars |-> 5, truncated |-> FALSE]],
                             [type |-> "image", data |-> 3, mimeType |-> "image/png"],
                             [type |-> "image", data |-> 1, mimeType |-> "image/jpeg"] >>] }

\* --------------------------------------------------------------- reply payload
NL == "\n"

\* extractAssistantText(msg): the message's text items, each trimmed, the empty
\* ones left out, joined by line breaks.
RECURSIVE JoinLines(_)
JoinLines(segments) ==
    IF segments = <<>> THEN <<>>
    ELSE IF Len(segments) = 1 THEN Head(segments)
    ELSE Head(segments) \o << NL >> \o JoinLines(Tail(segments))

extractAssistantText(segments) ==
    LET trimmed == [i \in 1..Len(segments) |-> Trim(segments[i])]
    IN  JoinLines(SelectSeq(trimmed, LAMBDA t : t # <<>>))

\* The session has streamed the text of its assistant message, and it has
\* closed the message: the message is the last assistant message of
\* session.messages.
MessageStreamed(r) == streaming[r].segment = Len(streaming[r].script) + 1
StreamOver(r) == streaming[r].segment > Len(streaming[r].script) + 1

\* formatToolAggregate(toolName, metas): the tool's name followed by the metas.
formatToolAggregate(toolName, metas) ==
    << toolName >> \o (IF metas = <<>> THEN <<>> ELSE metas[1])

\* A reply item { text, media } made of what splitMediaFromOutput returned.
ReplyItem(split) == [text |-> split.text, media |-> split.mediaUrls]

\* Map a function over a list.
MapSeq(f(_), list) == [i \in 1..Len(list) |-> f(list[i])]

\* const errorText = lastAssistant ? formatAssistantErrorText(lastAssistant)
\*   : undefined; if (errorText) replyItems.push({ text: errorText })
ErrorItems(r) ==
    IF /\ StreamOver(r)
       /\ streaming[r].errorText # Undefined
       /\ streaming[r].errorText # <<>>
      THEN << [text |-> streaming[r].errorText, media |-> <<>>] >>
      ELSE <<>>

\* Mutant: the inline summaries are added whether or not a tool-result observer
\* was supplied.
InlineToolItemsAlways(r) ==
    LET inlineToolResults ==
            /\ params[r].verboseLevel = "on"
            /\ ~params[r].hasOnPartialReply
            /\ toolMetas[r] # <<>>
        Summary(t) ==
            splitMediaFromOutput(
                formatToolAggregate(t.toolName,
                                    IF t.meta # Undefined /\ t.meta # <<>>
                                      THEN << t.meta >> ELSE <<>>))
    IN  IF inlineToolResults
          THEN MapSeq(ReplyItem,
                      SelectSeq(MapSeq(Summary, toolMetas[r]), LAMBDA s : s.text # <<>>))
          ELSE <<>>

\* The inline tool summaries.
InlineToolItems(r) ==
    LET inlineToolResults ==
            /\ params[r].verboseLevel = "on"
            /\ ~params[r].hasOnPartialReply
            /\ ~params[r].hasOnToolResult
            /\ toolMetas[r] # <<>>
        Summary(t) ==
            splitMediaFromOutput(
                formatToolAggregate(t.toolName,
                                    IF t.meta # Undefined /\ t.meta # <<>>
                                      THEN << t.meta >> ELSE <<>>))
    IN  IF inlineToolResults
          THEN MapSeq(ReplyItem,
                      SelectSeq(MapSeq(Summary, toolMetas[r]), LAMBDA s : s.text # <<>>))
          ELSE <<>>

\* The assistant blocks, or the text of the last assistant message when there
\* is no block.
AssistantItems(r) ==
    LET texts == IF assistantTexts[r] # <<>> THEN assistantTexts[r]
                 ELSE IF StreamOver(r)
                        THEN << extractAssistantText(streaming[r].script) >>
                        ELSE <<>>
    IN  MapSeq(ReplyItem, SelectSeq(MapSeq(splitMediaFromOutput, texts), Deliverable))

\* replyItems.map(...): a string is a list of tokens, mediaUrl the one-token
\* string of the first reference.
Payload(item) ==
    [text |-> IF Trim(item.text) # <<>> THEN Trim(item.text) ELSE Undefined,
     mediaUrls |-> IF item.media # <<>> THEN item.media ELSE Undefined,
     mediaUrl |-> IF item.media # <<>> THEN << item.media[1] >> ELSE Undefined]

\* Mutant: the mapped items are returned as they are, none is filtered out.
PayloadsUnfiltered(r) ==
    MapSeq(Payload, ErrorItems(r) \o InlineToolItems(r) \o AssistantItems(r))

\* const payloads = replyItems.map(...).filter(...); the run returns
\* payloads.length ? payloads : undefined, the empty list here.
Payloads(r) ==
    SelectSeq(MapSeq(Payload, ErrorItems(r) \o InlineToolItems(r) \o AssistantItems(r)),
              LAMBDA p : \/ p.text # Undefined
                         \/ p.mediaUrl # Undefined
                         \/ (p.mediaUrls # Undefined /\ Len(p.mediaUrls) > 0))

\* Map.get and Map.set of toolMetaById
MapGet(m, k) == IF k \in DOMAIN m THEN m[k] ELSE Undefined
MapSet(m, k, v) == [j \in DOMAIN m \cup {k} |-> IF j = k THEN v ELSE m[j]]

\* The handler of a message or tool event ran: the session delivered one more
\* event, which did not touch the compaction coordinator.
StreamEventHandled(r) ==
    /\ streamEvents' = streamEvents + 1
    /\ lastEvent' = [lastEvent EXCEPT ![r] = MessageOrToolEvent]
    /\ UNCHANGED << orchVars, processVars, silentCall, handleVars, earVars,
                    compactionInFlight,
                    pendingCompactionRetry, compactionRetryPromise >>

\* evt.type === "tool_execution_start"
ToolExecutionStart(r, toolCallId, meta) ==
    /\ subscribed[r]
    /\ toolMetaById' = [toolMetaById EXCEPT ![r] = MapSet(@, toolCallId, meta)]
    /\ StreamEventHandled(r)
    /\ UNCHANGED << assistantTexts, toolMetas, deltaBuffer, lastStreamedAssistant,
                    lastBlockReplyText, assistantTextBaseline, observerVars,
                    deliveryVars >>

\* What the handler of a tool event with a result leaves behind: the sanitized
\* result that emitAgentEvent got, with the event's result object as it was
\* before and as it is after the handler.
Forwarded(result) ==
    [original |-> result,
     argument |-> sanitizeToolResult(result).argument,
     sanitized |-> sanitizeToolResult(result).returned]

\* evt.type === "tool_execution_update" with evt.partialResult
ToolExecutionUpdate(r, partialResult) ==
    /\ subscribed[r]
    /\ forwardedResult' = [forwardedResult EXCEPT ![r] = Forwarded(partialResult)]
    /\ StreamEventHandled(r)
    /\ UNCHANGED << streamVars, partialReplies, blockReplies, payloads,
                    deltasSinceReset, blocksSinceMessageEnd, deliveryVars >>

\* What params.onToolResult does when it is called: it returns (a value or a
\* promise that is fulfilled), it throws, or it returns a promise that is
\* rejected.
ObserverBehaviours == { "returns", "throws", "rejects" }

\* const emitToolResult = typeof params.shouldEmitToolResult === "function"
\*   ? params.shouldEmitToolResult() : params.verboseLevel === "on"
emitToolResult(r) ==
    IF params[r].shouldEmitToolResult # "undefined"
      THEN params[r].shouldEmitToolResult = "true"
      ELSE params[r].verboseLevel = "on"

\* formatToolAggregate(toolName, meta ? [meta] : undefined), split.
ToolResultSummary(toolName, meta) ==
    splitMediaFromOutput(
        formatToolAggregate(toolName,
                            IF meta # Undefined /\ meta # <<>> THEN << meta >> ELSE <<>>))

\* The payload of an onToolResult call:
\* { text: cleanedText, mediaUrls: mediaUrls?.length ? mediaUrls : undefined }
ToolResultCall(split) ==
    [text |-> split.text,
     mediaUrls |-> IF split.mediaUrls # <<>> THEN split.mediaUrls ELSE Undefined]

\* try { void params.onToolResult(...) } catch { }: what the observer throws is
\* caught, nothing it throws leaves the handler.
ThrowEscapes(observer) == FALSE

\* void params.onToolResult(...): the promise the observer returns is dropped,
\* so nothing handles its rejection.
RejectionUnhandled(observer) == observer = "rejects"

\* evt.type === "tool_execution_end" with evt.result; observer is what
\* params.onToolResult does if the handler calls it.
ToolExecutionEnd(r, toolName, toolCallId, result, observer) ==
    /\ subscribed[r]
    /\ toolMetas' =
         [toolMetas EXCEPT ![r] =
            Append(@, [toolName |-> toolName,
                       meta |-> MapGet(toolMetaById[r], toolCallId)])]
    /\ forwardedResult' = [forwardedResult EXCEPT ![r] = Forwarded(result)]
    /\ \E split \in { ToolResultSummary(toolName, MapGet(toolMetaById[r], toolCallId)) } :
          IF emitToolResult(r) /\ params[r].hasOnToolResult /\ Deliverable(split)
            THEN /\ toolResultCalls' =
                      [toolResultCalls EXCEPT ![r] = Append(@, ToolResultCall(split))]
                 /\ handlerThrew' =
                      [handlerThrew EXCEPT ![r] = @ \/ ThrowEscapes(observer)]
                 /\ unhandledRejections' =
                      [unhandledRejections EXCEPT
                         ![r] = IF RejectionUnhandled(observer) THEN @ + 1 ELSE @]
            ELSE /\ observer = "returns"
                 /\ UNCHANGED << toolResultCalls, handlerThrew, unhandledRejections >>
    /\ UNCHANGED nodeProcess
    /\ StreamEventHandled(r)
    /\ UNCHANGED << assistantTexts, toolMetaById, deltaBuffer, lastStreamedAssistant,
                    lastBlockReplyText, assistantTextBaseline, partialReplies,
                    blockReplies, payloads, deltasSinceReset, blocksSinceMessageEnd >>

\* The assistantMessageEvent of a message_update event is a record with a type
\* and, by type, a delta or a content string.
\* const chunk = typeof assistantRecord?.delta === "string" ? assistantRecord.delta
\*   : typeof assistantRecord?.content === "string" ? assistantRecord.content : ""
ChunkOf(assistantRecord) ==
    IF "delta" \in DOMAIN assistantRecord THEN assistantRecord.delta
    ELSE IF "content" \in DOMAIN assistantRecord THEN assistantRecord.content
    ELSE <<>>

\* The delta of the event, none when it carries no delta.
DeltaOf(assistantRecord) ==
    IF "delta" \in DOMAIN assistantRecord THEN assistantRecord.delta ELSE <<>>

\* Mutant: every non-empty text is notified, changed or not.
FreshAlways(next, last) == next # <<>>

\* if (next && next !== lastStreamedAssistant)
Fresh(next, last) == next # <<>> /\ next # last

\* The payload of an onPartialReply call, with the text it was derived from.
PartialReply(next) ==
    [text |-> splitMediaFromOutput(next).text,
     mediaUrls |-> splitMediaFromOutput(next).mediaUrls,
     derived |-> next]

\* Mutant: a new element is put in front of the list.
pushFront(list, item) == << item >> \o list

\* list.push(item) of a block to the block list, and the call of an observer
\* appended to the calls it has received: both at the end, in call order.
push(list, item) == Append(list, item)

\* evt.type === "message_update" of an assistant message, with the
\* assistantMessageEvent assistantRecord of type text_start, text_delta or
\* text_end.
MessageUpdate(r, assistantRecord) ==
    /\ subscribed[r]
    /\ \E evtType \in { assistantRecord.type } :
       \E buffer \in { deltaBuffer[r] \o ChunkOf(assistantRecord) } :
       \E next \in { NextText(params[r].enforceFinalTag,
                              CleanedText(params[r].enforceFinalTag, buffer)) } :
       \E fresh \in { Fresh(next, lastStreamedAssistant[r]) } :
       \E atBreak \in { evtType = "text_end" /\ BlockReplyBreakOf(r) = "text_end" } :
       \E finalized \in { atBreak /\ next # <<>> /\ next # lastBlockReplyText[r] } :
          /\ deltaBuffer' = [deltaBuffer EXCEPT ![r] = IF atBreak THEN <<>> ELSE buffer]
          /\ lastStreamedAssistant' =
               [lastStreamedAssistant EXCEPT ![r] =
                  IF atBreak THEN Undefined ELSE IF fresh THEN next ELSE @]
          /\ lastBlockReplyText' =
               [lastBlockReplyText EXCEPT ![r] =
                  IF finalized THEN next
                  ELSE IF atBreak /\ next = <<>> THEN Undefined
                  ELSE @]
          /\ assistantTexts' =
               [assistantTexts EXCEPT ![r] = IF finalized THEN push(@, next) ELSE @]
          /\ partialReplies' =
               [partialReplies EXCEPT ![r] =
                  IF fresh /\ params[r].hasOnPartialReply
                    THEN Append(@, PartialReply(next)) ELSE @]
          /\ blockReplies' =
               [blockReplies EXCEPT ![r] =
                  IF /\ finalized
                     /\ params[r].hasOnBlockReply
                     /\ Deliverable(splitMediaFromOutput(next))
                    THEN push(@, BlockReply(splitMediaFromOutput(next), "text_end"))
                    ELSE @]
          /\ deltasSinceReset' =
               [deltasSinceReset EXCEPT ![r] =
                  IF atBreak THEN <<>> ELSE @ \o DeltaOf(assistantRecord)]
          /\ blocksSinceMessageEnd' =
               [blocksSinceMessageEnd EXCEPT ![r] = IF finalized THEN @ + 1 ELSE @]
    /\ StreamEventHandled(r)
    /\ UNCHANGED << toolMetas, toolMetaById, assistantTextBaseline, forwardedResult,
                    payloads, deliveryVars >>

\* Mutant: the message completion never sees a block finalized while streaming.
addedDuringMessageNever(r) == FALSE

\* addedDuringMessage: the block list has grown past the baseline taken at the
\* previous message completion (or at the compaction reset).
addedDuringMessage(r) == Len(assistantTexts[r]) > assistantTextBaseline[r]

\* evt.type === "message_end" of an assistant message whose text
\* (extractAssistantText) is raw.
MessageEnd(r, raw) ==
    /\ subscribed[r]
    /\ \E text \in { MessageText(params[r].enforceFinalTag,
                                 CleanedText(params[r].enforceFinalTag, raw)) } :
       \E texts \in { IF ~addedDuringMessage(r) /\ text # <<>>
                        THEN push(assistantTexts[r], text) ELSE assistantTexts[r] } :
       \E atBreak \in { /\ BlockReplyBreakOf(r) = "message_end"
                        /\ text # <<>>
                        /\ params[r].hasOnBlockReply } :
       \E duplicate \in { atBreak /\ text = lastBlockReplyText[r] } :
          /\ assistantTexts' = [assistantTexts EXCEPT ![r] = texts]
          /\ assistantTextBaseline' = [assistantTextBaseline EXCEPT ![r] = Len(texts)]
          /\ blockReplies' =
               [blockReplies EXCEPT ![r] =
                  IF atBreak /\ ~duplicate /\ Deliverable(splitMediaFromOutput(text))
                    THEN push(@, BlockReply(splitMediaFromOutput(text), "message_end"))
                    ELSE @]
          /\ lastBlockReplyText' =
               [lastBlockReplyText EXCEPT ![r] = IF duplicate THEN @ ELSE Undefined]
    /\ deltaBuffer' = [deltaBuffer EXCEPT ![r] = <<>>]
    /\ lastStreamedAssistant' = [lastStreamedAssistant EXCEPT ![r] = Undefined]
    /\ deltasSinceReset' = [deltasSinceReset EXCEPT ![r] = <<>>]
    /\ blocksSinceMessageEnd' = [blocksSinceMessageEnd EXCEPT ![r] = 0]
    /\ StreamEventHandled(r)
    /\ UNCHANGED << toolMetas, toolMetaById, partialReplies, forwardedResult, payloads,
                    deliveryVars >>

\* The names of the accumulator fields of r that hold something.
NonEmptyStreamFields(r) ==
    { f \in { "assistantTexts", "toolMetas", "toolMetaById", "deltaBuffer",
              "lastStreamedAssistant", "lastBlockReplyText",
              "assistantTextBaseline" } :
        \/ f = "assistantTexts" /\ assistantTexts[r] # <<>>
        \/ f = "toolMetas" /\ toolMetas[r] # <<>>
        \/ f = "toolMetaById" /\ DOMAIN toolMetaById[r] # {}
        \/ f = "deltaBuffer" /\ deltaBuffer[r] # <<>>
        \/ f = "lastStreamedAssistant" /\ lastStreamedAssistant[r] # Undefined
        \/ f = "lastBlockReplyText" /\ lastBlockReplyText[r] # Undefined
        \/ f = "assistantTextBaseline" /\ assistantTextBaseline[r] # 0 }

\* Mutant: the reset forgets the tool metadata cache.
resetForCompactionRetryKeepCache(r) ==
    /\ assistantTexts' = [assistantTexts EXCEPT ![r] = <<>>]
    /\ toolMetas' = [toolMetas EXCEPT ![r] = <<>>]
    /\ deltaBuffer' = [deltaBuffer EXCEPT ![r] = <<>>]
    /\ lastStreamedAssistant' = [lastStreamedAssistant EXCEPT ![r] = Undefined]
    /\ lastBlockReplyText' = [lastBlockReplyText EXCEPT ![r] = Undefined]
    /\ assistantTextBaseline' = [assistantTextBaseline EXCEPT ![r] = 0]
    /\ UNCHANGED toolMetaById

resetForCompactionRetry(r) ==
    /\ assistantTexts' = [assistantTexts EXCEPT ![r] = <<>>]
    /\ toolMetas' = [toolMetas EXCEPT ![r] = <<>>]
    /\ toolMetaById' = [toolMetaById EXCEPT ![r] = EmptyMap]
    /\ deltaBuffer' = [deltaBuffer EXCEPT ![r] = <<>>]
    /\ lastStreamedAssistant' = [lastStreamedAssistant EXCEPT ![r] = Undefined]
    /\ lastBlockReplyText' = [lastBlockReplyText EXCEPT ![r] = Undefined]
    /\ assistantTextBaseline' = [assistantTextBaseline EXCEPT ![r] = 0]

\* ------------------------------------------------- compaction-retry coordinator
\* The coordinator's fields of one subscription, as a record; fired tells whether
\* compactionRetryResolve was called on a pending promise.
CompState(r) ==
    [inFlight |-> compactionInFlight[r], pending |-> pendingCompactionRetry[r],
     promise |-> compactionRetryPromise[r], fired |-> FALSE]

ensureCompactionPromise(c) ==
    IF c.promise = "null" THEN [c EXCEPT !.promise = "pending"] ELSE c

noteCompactionRetry(c) ==
    ensureCompactionPromise([c EXCEPT !.pending = @ + 1])

\* compactionRetryResolve?.(); compactionRetryResolve = undefined;
\* compactionRetryPromise = null
ResolveCompactionPromise(c) ==
    [c EXCEPT !.promise = "null", !.fired = (c.promise = "pending")]

\* Mutant: every settled retry resolves the promise, whatever debt is left.
resolveCompactionRetryEager(c) ==
    IF c.pending <= 0
      THEN c
      ELSE ResolveCompactionPromise([c EXCEPT !.pending = @ - 1])

resolveCompactionRetry(c) ==
    IF c.pending <= 0
      THEN c
      ELSE LET d == [c EXCEPT !.pending = @ - 1]
           IN  IF d.pending = 0 /\ ~d.inFlight THEN ResolveCompactionPromise(d) ELSE d

\* Mutant: a compaction that ends without a retry leaves the promise as it is.
maybeResolveCompactionWaitNever(c) == c

maybeResolveCompactionWait(c) ==
    IF c.pending = 0 /\ ~c.inFlight THEN ResolveCompactionPromise(c) ELSE c

\* Store the coordinator's fields after the handler of an event of kind k; a run
\* that awaits the promise is released when the promise is resolved.
SetCompState(r, k, c) ==
    /\ compactionInFlight' = [compactionInFlight EXCEPT ![r] = c.inFlight]
    /\ pendingCompactionRetry' = [pendingCompactionRetry EXCEPT ![r] = c.pending]
    /\ compactionRetryPromise' = [compactionRetryPromise EXCEPT ![r] = c.promise]
    /\ lastEvent' = [lastEvent EXCEPT ![r] =
                       [kind |-> k, resolved |-> c.fired,
                        cleared |-> IF c.pending > pendingCompactionRetry[r]
                                      THEN NonEmptyStreamFields(r) ELSE {}]]
    /\ pc' = [pc EXCEPT ![r] = IF c.fired /\ pc[r] = "waiting" THEN "released" ELSE @]

\* --------------------------------------------------- stream handler: compaction
\* evt.type === "auto_compaction_start"
AutoCompactionStart(r) ==
    /\ subscribed[r]
    /\ SetCompState(r, "auto_compaction_start",
                    ensureCompactionPromise([CompState(r) EXCEPT !.inFlight = TRUE]))
    /\ UNCHANGED << nextRun, params, laneVars, ACTIVE_EMBEDDED_RUNS, abortVars,
                    timerVars, signalVars, sessionVars, promptError, outcome,
                    abortCallsLeft, settledAfterTimeout, handleAtCleanup,
                    streamVars, streamEvents,
                    observerVars, streaming, processVars,
                    silentCall, deliveryVars, handleVars, earVars >>

\* evt.type === "auto_compaction_end"
AutoCompactionEnd(r, willRetry) ==
    /\ subscribed[r]
    /\ willRetry => pendingCompactionRetry[r] < MaxPendingRetry
    /\ LET c == [CompState(r) EXCEPT !.inFlight = FALSE]
       IN  SetCompState(r, "auto_compaction_end",
                        IF willRetry THEN noteCompactionRetry(c)
                                     ELSE maybeResolveCompactionWait(c))
    /\ IF willRetry
         THEN /\ resetForCompactionRetry(r)
              /\ deltasSinceReset' = [deltasSinceReset EXCEPT ![r] = <<>>]
              /\ blocksSinceMessageEnd' = [blocksSinceMessageEnd EXCEPT ![r] = 0]
         ELSE UNCHANGED << streamVars, deltasSinceReset, blocksSinceMessageEnd >>
    /\ UNCHANGED << nextRun, params, laneVars, ACTIVE_EMBEDDED_RUNS, abortVars,
                    timerVars, signalVars, sessionVars, promptError, outcome,
                    abortCallsLeft, settledAfterTimeout, handleAtCleanup,
                    streamEvents, partialReplies, blockReplies, forwardedResult,
                    payloads, streaming, processVars,
                    silentCall, deliveryVars, handleVars, earVars >>

\* evt.type === "agent_end"
AgentEnd(r) ==
    /\ subscribed[r]
    /\ SetCompState(r, "agent_end",
                    IF pendingCompactionRetry[r] > 0
                      THEN resolveCompactionRetry(CompState(r))
                      ELSE maybeResolveCompactionWait(CompState(r)))
    /\ UNCHANGED << nextRun, params, laneVars, ACTIVE_EMBEDDED_RUNS, abortVars,
                    timerVars, signalVars, sessionVars, promptError, outcome,
                    abortCallsLeft, settledAfterTimeout, handleAtCleanup,
                    streamVars, streamEvents,
                    observerVars, streaming, processVars,
                    silentCall, deliveryVars, handleVars, earVars >>

\* ------------------------------------------------------ prompt and finalizing
\* waitForCompactionRetry(), and its queueMicrotask callback: wait for the
\* coordinator's promise when a compaction is in flight or a retry is owed.
\* otherwise names where the body goes when there is nothing to wait for.
AwaitCompaction(r, otherwise) ==
    IF compactionInFlight[r] \/ pendingCompactionRetry[r] > 0
      THEN /\ compactionRetryPromise' =
                [compactionRetryPromise EXCEPT
                    ![r] = ensureCompactionPromise(CompState(r)).promise]
           /\ pc' = [pc EXCEPT ![r] = "waiting"]
      ELSE /\ pc' = [pc EXCEPT ![r] = otherwise]
           /\ UNCHANGED compactionRetryPromise

\* Mutant: a prompt error is rethrown at once, past the cleanup.
PromptSettleRethrow(r, ok) ==
    /\ pc[r] = "prompting"
    /\ promptError' = [promptError EXCEPT ![r] = ~ok]
    /\ settledAfterTimeout' =
         [settledAfterTimeout EXCEPT ![r] = (abortTimer[r] = "fired")]
    /\ IF ok
         THEN /\ AwaitCompaction(r, "microtask")
              /\ UNCHANGED << outcome, laneActive >>
         ELSE /\ Reject(r, "prompt")
              /\ UNCHANGED compactionRetryPromise
    /\ UNCHANGED << nextRun, params, laneQueue, ACTIVE_EMBEDDED_RUNS, abortVars,
                    timerVars, signalVars, sessionVars, abortCallsLeft,
                    handleAtCleanup, compactionInFlight, pendingCompactionRetry,
                    lastEvent, streamVars, streamEvents,
                    observerVars, streaming, processVars,
                    silentCall, deliveryVars, handleVars, earVars >>

\* session.prompt settles (ok: resolves); the error is captured and the body goes
\* on to call waitForCompactionRetry(), which returns the coordinator's promise
\* or a promise that checks again in a microtask.
PromptSettle(r, ok) ==
    /\ pc[r] = "prompting"
    /\ promptError' = [promptError EXCEPT ![r] = ~ok]
    /\ settledAfterTimeout' =
         [settledAfterTimeout EXCEPT ![r] = (abortTimer[r] = "fired")]
    /\ AwaitCompaction(r, "microtask")
    /\ UNCHANGED << nextRun, params, laneVars, ACTIVE_EMBEDDED_RUNS, abortVars,
                    timerVars, signalVars, sessionVars, outcome, abortCallsLeft,
                    handleAtCleanup, compactionInFlight, pendingCompactionRetry,
                    lastEvent, streamVars, streamEvents,
                    observerVars, streaming, processVars,
                    silentCall, deliveryVars, handleVars, earVars >>

\* The queueMicrotask callback of waitForCompactionRetry.
CompactionMicrotask(r) ==
    /\ pc[r] = "microtask"
    /\ AwaitCompaction(r, "released")
    /\ UNCHANGED << nextRun, params, laneVars, ACTIVE_EMBEDDED_RUNS, abortVars,
                    timerVars, signalVars, sessionVars, promptError, outcome,
                    abortCallsLeft, settledAfterTimeout, handleAtCleanup,
                    compactionInFlight, pendingCompactionRetry, lastEvent,
                    streamVars, streamEvents,
                    observerVars, streaming, processVars,
                    silentCall, deliveryVars, handleVars, earVars >>

\* Mutant: the cleanup leaves the registry as it is.
RegistryAfterCleanupNever(r) == ACTIVE_EMBEDDED_RUNS

\* Mutant: the cleanup deletes the session id's entry without comparing handles.
RegistryAfterCleanupAlways(r) ==
    [ACTIVE_EMBEDDED_RUNS EXCEPT ![params[r].sessionId] = 0]

\* if (ACTIVE_EMBEDDED_RUNS.get(params.sessionId) === queueHandle) delete
RegistryAfterCleanup(r) ==
    IF ACTIVE_EMBEDDED_RUNS[params[r].sessionId] = r
      THEN [ACTIVE_EMBEDDED_RUNS EXCEPT ![params[r].sessionId] = 0]
      ELSE ACTIVE_EMBEDDED_RUNS

\* if (promptError && !aborted) throw promptError
RethrowsPromptError(r) == promptError[r] /\ ~aborted[r]

\* The inner finally block.
Cleanup(r) ==
    /\ abortTimer' = [abortTimer EXCEPT ![r] = IF @ = "armed" THEN "cleared" ELSE @]
    /\ abortWarnTimer' =
         [abortWarnTimer EXCEPT ![r] = IF @ = "armed" THEN "cleared" ELSE @]
    /\ subscribed' = [subscribed EXCEPT ![r] = FALSE]
    /\ ACTIVE_EMBEDDED_RUNS' = RegistryAfterCleanup(r)
    /\ session' = [session EXCEPT ![r] = "disposed"]
    /\ listenerAttached' = [listenerAttached EXCEPT ![r] = FALSE]

\* After the compaction wait: snapshot, cleanup, then the captured error is
\* rethrown or the payload is assembled and returned; the lane tasks settle.
Finalize(r) ==
    /\ pc[r] = "released"
    /\ Cleanup(r)
    /\ pc' = [pc EXCEPT ![r] = "done"]
    /\ outcome' = [outcome EXCEPT ![r] = IF RethrowsPromptError(r)
                                          THEN Rejected("prompt")
                                          ELSE Returned(aborted[r])]
    /\ laneActive' = LanesAfterSettle(r)
    /\ handleAtCleanup' =
         [handleAtCleanup EXCEPT ![r] = ACTIVE_EMBEDDED_RUNS[params[r].sessionId]]
    /\ payloads' = [payloads EXCEPT ![r] = IF RethrowsPromptError(r) THEN @ ELSE Payloads(r)]
    /\ OuterFinally(r)
    /\ UNCHANGED << nextRun, params, laneQueue, abortVars, signalAborted,
                    promptError, abortCallsLeft, settledAfterTimeout, compVars,
                    streamVars, streamEvents, partialReplies, blockReplies,
                    forwardedResult, deltasSinceReset, blocksSinceMessageEnd,
                    streaming, prevCwd,
                    silentCall, deliveryVars, handleVars, earVars >>

\* ------------------------------------------------------------------- claims
Submitted(r) == pc[r] # "idle"

BodyStarted(r) == InBody(r) \/ pc[r] = "done"

\* The session lane and the global lane that the run's request resolves to.
RequestSessionLane(r) == resolveSessionLane(SessionKeyOrId(params[r]))

RequestGlobalLane(r) == resolveGlobalLane(params[r].lane)

\* Everything the inner finally block releases is released.
CleanedUp(r) ==
    /\ session[r] = "disposed"
    /\ ~subscribed[r]
    /\ abortTimer[r] # "armed"
    /\ abortWarnTimer[r] # "armed"
    /\ ~listenerAttached[r]
    /\ \A s \in SessionIds : ACTIVE_EMBEDDED_RUNS[s] # r

\* C1: of two runs whose requests resolve to the same session lane, the one
\* submitted later starts its body only after the earlier one's body has ended
\* (so the bodies never overlap and start in submission order).
C1_SessionLaneSerial ==
    \A r1, r2 \in Runs :
        (r1 < r2 /\ Submitted(r1) /\ Submitted(r2)
            /\ RequestSessionLane(r1) = RequestSessionLane(r2))
        => (BodyStarted(r2) => pc[r1] = "done")

\* A later run waits in the session lane while the earlier run's body executes.
C1_Witness ==
    \E r1, r2 \in Runs :
        /\ r1 < r2 /\ Submitted(r1) /\ Submitted(r2)
        /\ SessionLaneOf(r1) = SessionLaneOf(r2)
        /\ laneActive[SessionLaneOf(r1)] = SessionTask(r1)
        /\ InBody(r1)
        /\ laneQueue[SessionLaneOf(r2)] = << SessionTask(r2) >>

\* C2: two runs in different session lanes that share one global lane are never
\* both inside their bodies.
C2_GlobalLaneExclusive ==
    \A r1, r2 \in Runs :
        (r1 # r2 /\ Submitted(r1) /\ Submitted(r2)
            /\ RequestSessionLane(r1) # RequestSessionLane(r2)
            /\ RequestGlobalLane(r1) = RequestGlobalLane(r2))
        => ~(InBody(r1) /\ InBody(r2))

\* One run's body executes while a run of another session lane waits in the
\* shared global lane.
C2_Witness ==
    \E r1, r2 \in Runs :
        /\ r1 # r2 /\ Submitted(r1) /\ Submitted(r2)
        /\ RequestSessionLane(r1) # RequestSessionLane(r2)
        /\ GlobalLaneOf(r1) = GlobalLaneOf(r2)
        /\ InBody(r1)
        /\ pc[r2] = "queuedGlobal"
        /\ laneQueue[GlobalLaneOf(r2)] = << GlobalTask(r2) >>

\* C3: a run's cleanup empties a registry entry exactly when the entry holds the
\* handle that run installed; every other entry, a later run's handle under the
\* same session id included, is left as it is.
C3_CleanupRemovesOwnHandleOnly ==
    [][\A r \in Runs :
          (pc[r] = "released" /\ pc'[r] = "done")
          => \A s \in SessionIds :
                ACTIVE_EMBEDDED_RUNS'[s] =
                    IF ACTIVE_EMBEDDED_RUNS[s] = r THEN 0 ELSE ACTIVE_EMBEDDED_RUNS[s]]_vars

\* A run's cleanup found another run's handle under its session id, and that
\* handle is still registered.
C3_Witness ==
    \E r \in Runs :
        /\ pc[r] = "done"
        /\ handleAtCleanup[r] \notin {0, r}
        /\ ACTIVE_EMBEDDED_RUNS[params[r].sessionId] = handleAtCleanup[r]

\* C4: once a run has returned or thrown, the registry does not hold the handle
\* that run installed.
C4_HandleNeverOutlivesRun ==
    \A r \in Runs : pc[r] = "done" => \A s \in SessionIds : ACTIVE_EMBEDDED_RUNS[s] # r

\* C5: however often and from whichever source a run's abort is invoked, the
\* session gets at most one stop request.
C5_SingleStopRequest ==
    \A r \in Runs : sessionAbortCalls[r] <= 1

\* C6: a run whose timeout fired before session.prompt settled ends by returning
\* a payload with meta.aborted true, whichever way the prompt settled.
C6_TimeoutGivesAbortedPayload ==
    \A r \in Runs :
        (pc[r] = "done" /\ settledAfterTimeout[r]) => outcome[r] = Returned(TRUE)

\* The timeout fired, the prompt then rejected, and the run has returned.
C6_Witness ==
    \E r \in Runs :
        /\ pc[r] = "done"
        /\ settledAfterTimeout[r]
        /\ promptError[r]
        /\ outcome[r].kind = "returned"

C8_ErrorsAfterOpenCleanUp ==
    \A r \in Runs :
        (outcome[r].kind = "rejected" /\ session[r] # "none") => CleanedUp(r)

\* C9: the compaction promise is resolved only into a state with no retry owed
\* and no compaction in flight; an agent_end with retries owed lowers the
\* counter by exactly one and resolves the promise only when that leaves no
\* debt and nothing in flight.
C9_CompactionResolveOnlyWhenDrained ==
    [][\A r \in Runs :
          /\ (compactionRetryPromise[r] = "pending" /\ compactionRetryPromise'[r] = "null")
               => (pendingCompactionRetry'[r] = 0 /\ ~compactionInFlight'[r])
          /\ (AgentEnd(r) /\ pendingCompactionRetry[r] > 0)
               => /\ pendingCompactionRetry'[r] = pendingCompactionRetry[r] - 1
                  /\ compactionInFlight'[r] = compactionInFlight[r]
                  /\ lastEvent'[r].resolved
                       => (pendingCompactionRetry'[r] = 0 /\ ~compactionInFlight[r])]_vars

\* An agent_end settled the last owed retry and released the waiting run.
C9_Witness ==
    \E r \in Runs :
        /\ lastEvent[r].kind = "agent_end"
        /\ lastEvent[r].resolved
        /\ pc[r] = "released"
        /\ pendingCompactionRetry[r] = 0
        /\ compactionRetryPromise[r] = "null"

\* The accumulator of one subscription.
StreamStateOf(r) ==
    [assistantTexts |-> assistantTexts[r], toolMetas |-> toolMetas[r],
     toolMetaById |-> toolMetaById[r], deltaBuffer |-> deltaBuffer[r],
     lastStreamedAssistant |-> lastStreamedAssistant[r],
     lastBlockReplyText |-> lastBlockReplyText[r],
     assistantTextBaseline |-> assistantTextBaseline[r]]

\* C10: when a subscription handles an auto_compaction_end event with willRetry
\* (the only event that adds a retry to its debt), then right after the handler
\* its block list, tool record list, tool metadata cache and delta buffer are
\* empty and its two dedupe values are unset, and the accumulator of every other
\* subscription is what it was.
C10_RetryResetsOwnRunOnly ==
    [][\A r \in Runs :
          (/\ lastEvent'[r].kind = "auto_compaction_end"
           /\ pendingCompactionRetry'[r] = pendingCompactionRetry[r] + 1)
          => /\ assistantTexts'[r] = <<>>
             /\ toolMetas'[r] = <<>>
             /\ DOMAIN toolMetaById'[r] = {}
             /\ deltaBuffer'[r] = <<>>
             /\ lastStreamedAssistant'[r] = Undefined
             /\ lastBlockReplyText'[r] = Undefined
             /\ \A o \in Runs \ {r} : StreamStateOf(o)' = StreamStateOf(o)]_vars

\* A retry reset has just discarded blocks, tool records, cached tool meta,
\* buffered text and both dedupe values of one subscription while another
\* subscription holds blocks of its own.
C10_Witness ==
    \E r \in Runs, o \in Runs :
        /\ r # o
        /\ lastEvent[r].kind = "auto_compaction_end"
        /\ pendingCompactionRetry[r] > 0
        /\ { "assistantTexts", "toolMetas", "toolMetaById", "deltaBuffer",
             "lastStreamedAssistant", "lastBlockReplyText" } \subseteq lastEvent[r].cleared
        /\ NonEmptyStreamFields(r) = {}
        /\ subscribed[o]
        /\ assistantTexts[o] # <<>>

\* ----------------------------------------------------------- specifications
\* Spec: the runs' life cycle, lanes and registry. No timeout fires, no abort is
\* requested and the sessions emit no compaction events.
Next ==
    \/ \E r \in Runs, inp \in RunInputs : Submit(r, inp)
    \/ \E l \in LaneNames : DrainLane(l)
    \/ \E r \in Runs, ok \in BOOLEAN : ResolveModel(r, ok)
    \/ \E r \in Runs, ok \in BOOLEAN : PrepareWorkspace(r, ok)
    \/ \E r \in Runs, ok \in BOOLEAN : OpenSession(r, ok)
    \/ \E r \in Runs, ok \in BOOLEAN : SanitizeHistory(r, ok)
    \/ \E r \in Runs, how \in {"ok", "subscribe", "listener"} : RegisterAndPrompt(r, how)
    \/ \E r \in Runs, ok \in BOOLEAN : PromptSettle(r, ok)
    \/ \E r \in Runs : CompactionMicrotask(r)
    \/ \E r \in Runs : Finalize(r)

Spec == Init /\ [][Next]_vars

\* The event loop: while a lane can start its next task or a body's awaited
\* promise has settled, one of them goes on.
RunStep(r) ==
    \/ \E ok \in BOOLEAN : ResolveModel(r, ok)
    \/ \E ok \in BOOLEAN : PrepareWorkspace(r, ok)
    \/ \E ok \in BOOLEAN : OpenSession(r, ok)
    \/ \E ok \in BOOLEAN : SanitizeHistory(r, ok)
    \/ \E how \in {"ok", "subscribe", "listener"} : RegisterAndPrompt(r, how)
    \/ \E ok \in BOOLEAN : PromptSettle(r, ok)
    \/ CompactionMicrotask(r)
    \/ Finalize(r)

EventLoopFairness ==
    WF_vars((\E l \in LaneNames : DrainLane(l)) \/ (\E r \in Runs : RunStep(r)))

SpecLive == Spec /\ EventLoopFairness

\* SpecRun: one run (the last of Runs) with its whole environment: the timeout
\* and warning timers, the caller's abort signal, abortEmbeddedPiRun calls and
\* the session's compaction events.
InitRun == nextRun = NRuns /\ InitState

NextRun ==
    \/ Next
    \/ \E r \in Runs : TimerFire(r)
    \/ \E r \in Runs : WarnTimerFire(r)
    \/ \E r \in Runs : SignalAbort(r)
    \/ \E sid \in SessionIds : abortEmbeddedPiRun(sid)
    \/ \E r \in Runs : AutoCompactionStart(r)
    \/ \E r \in Runs, willRetry \in BOOLEAN : AutoCompactionEnd(r, willRetry)
    \/ \E r \in Runs : AgentEnd(r)

SpecRun == InitRun /\ [][NextRun]_vars

\* SpecRun under the event loop's fairness: the lanes and the body go on, the
\* prompt settles; the timers, the callers and the session's events are free.
SpecRunLive == SpecRun /\ EventLoopFairness

\* The run of SpecRun, with callers that queue messages for its session too.
NextHandle ==
    \/ NextRun
    \/ \E sid \in SessionIds, isStreaming \in BOOLEAN : queueEmbeddedPiMessage(sid, isStreaming)

SpecHandle == InitRun /\ [][NextHandle]_vars

\* Two runs stream at once: run 1 (no session key, default lane) and run 2
\* (session key "b", lane "cron") were submitted, went through both of their
\* lanes and are waiting for session.prompt, run 2 having registered last.
StreamRuns == {1, 2}

InitStream ==
    /\ nextRun = 3
    /\ params =
         [r \in Runs |->
            IF r = 1
              THEN [sessionId |-> <<"a">>, sessionKey |-> <<>>, lane |-> <<>>,
                    hasSignal |-> FALSE, enforceFinalTag |-> FALSE,
                    blockReplyBreak |-> "", hasOnBlockReply |-> FALSE,
                    hasOnPartialReply |-> FALSE,
       verboseLevel |-> "off", hasOnToolResult |-> FALSE,
       shouldEmitToolResult |-> "undefined",
       workspaceDir |-> "wsA"]
              ELSE IF r = 2
                THEN [sessionId |-> <<"a">>, sessionKey |-> <<"b">>,
                      lane |-> <<"cron">>, hasSignal |-> FALSE,
                      enforceFinalTag |-> TRUE, blockReplyBreak |-> "message_end",
                      hasOnBlockReply |-> FALSE, hasOnPartialReply |-> FALSE,
       verboseLevel |-> "off", hasOnToolResult |-> FALSE,
       shouldEmitToolResult |-> "undefined",
       workspaceDir |-> "wsB"]
                ELSE NoParams]
    /\ laneQueue = [l \in LaneNames |-> <<>>]
    /\ laneActive =
         [l \in LaneNames |->
            IF \E r \in StreamRuns : l = SessionLaneOf(r)
              THEN SessionTask(CHOOSE r \in StreamRuns : l = SessionLaneOf(r))
              ELSE IF \E r \in StreamRuns : l = GlobalLaneOf(r)
                THEN GlobalTask(CHOOSE r \in StreamRuns : l = GlobalLaneOf(r))
                ELSE NoTask]
    /\ pc = [r \in Runs |-> IF r \in StreamRuns THEN "prompting" ELSE "idle"]
    /\ ACTIVE_EMBEDDED_RUNS = [s \in SessionIds |-> IF s = <<"a">> THEN 2 ELSE 0]
    /\ aborted = [r \in Runs |-> FALSE]
    /\ sessionAbortCalls = [r \in Runs |-> 0]
    /\ abortTimer = [r \in Runs |-> IF r \in StreamRuns THEN "armed" ELSE "unset"]
    /\ abortWarnTimer = [r \in Runs |-> "unset"]
    /\ signalAborted = [r \in Runs |-> FALSE]
    /\ listenerAttached = [r \in Runs |-> FALSE]
    /\ session = [r \in Runs |-> IF r \in StreamRuns THEN "open" ELSE "none"]
    /\ subscribed = [r \in Runs |-> r \in StreamRuns]
    /\ promptError = [r \in Runs |-> FALSE]
    /\ outcome = [r \in Runs |-> NoOutcome]
    /\ abortCallsLeft = MaxAbortCalls
    /\ settledAfterTimeout = [r \in Runs |-> FALSE]
    /\ handleAtCleanup = [r \in Runs |-> 0]
    /\ lastEvent = [r \in Runs |-> NoEvent]
    /\ compactionInFlight = [r \in Runs |-> FALSE]
    /\ pendingCompactionRetry = [r \in Runs |-> 0]
    /\ compactionRetryPromise = [r \in Runs |-> "null"]
    /\ assistantTexts = [r \in Runs |-> <<>>]
    /\ toolMetas = [r \in Runs |-> <<>>]
    /\ toolMetaById = [r \in Runs |-> EmptyMap]
    /\ deltaBuffer = [r \in Runs |-> <<>>]
    /\ lastStreamedAssistant = [r \in Runs |-> Undefined]
    /\ lastBlockReplyText = [r \in Runs |-> Undefined]
    /\ assistantTextBaseline = [r \in Runs |-> 0]
    /\ streamEvents = 0
    /\ partialReplies = [r \in Runs |-> <<>>]
    /\ blockReplies = [r \in Runs |-> <<>>]
    /\ forwardedResult = [r \in Runs |-> NothingForwarded]
    /\ payloads = [r \in Runs |-> <<>>]
    /\ deltasSinceReset = [r \in Runs |-> <<>>]
    /\ blocksSinceMessageEnd = [r \in Runs |-> 0]
    /\ streaming = [r \in Runs |-> NotStreaming]
    /\ cwd = "wsB"
    /\ prevCwd = [r \in Runs |-> IF r \in StreamRuns THEN "home" ELSE "none"]
    /\ envOverrides = StreamRuns
    /\ silentCall = NoCall
    /\ InitExtras

\* The text events the sessions deliver.
TextEvents ==
    { [type |-> "text_delta", delta |-> c] : c \in Chunks }
        \cup { [type |-> "text_end", delta |-> c] : c \in { <<>>, << "x" >> } }

\* The events the two sessions deliver while their prompts are in flight; a
\* compaction that will be retried ends only while no subscription owes a retry.
NextStream ==
    \/ /\ streamEvents < MaxStreamEvents
       /\ UNCHANGED streaming
       /\ \/ \E r \in Runs, e \in TextEvents : MessageUpdate(r, e)
          \/ \E r \in Runs, raw \in MessageTexts : MessageEnd(r, raw)
          \/ \E r \in Runs, id \in ToolCallIds, meta \in ToolMetaValues :
                ToolExecutionStart(r, id, meta)
          \/ \E r \in Runs, name \in ToolNames, id \in ToolCallIds :
                ToolExecutionEnd(r, name, id, NoResult, "returns")
    \/ \E r \in Runs :
          /\ \A o \in Runs : pendingCompactionRetry[o] = 0
          /\ AutoCompactionEnd(r, TRUE)

SpecStream == InitStream /\ [][NextStream]_vars

\* ---------------------------------------------------------- a scripted stream
\* One run streams a scripted assistant message: the message's text segments
\* arrive split into chunks in every possible way, each segment is closed by a
\* text_end event (which may carry the segment's last chunk), the message by a
\* message_end event; the prompt then settles and the run finishes.
ScriptUnpairedOpen == << Spell(FinalOpen) \o << "Hi" >> >>
ScriptUnpairedClose == << << "Hi" >> \o Spell(FinalClose) >>
ScriptThinking == << Spell(ThinkOpen) \o << "x" >> \o Spell(ThinkClose) \o << "Hello" >> >>
ScriptFinal ==
    << << "noise" >> \o Spell(FinalOpen) \o << "Hi" >> \o Spell(FinalClose) \o << "more" >> >>
ScriptTwoSegments == << << "one", WS >>, << "two" >> >>
ScriptSameSegments == << << "ok" >>, << "ok" >> >>
ScriptBlankSegment == << << WS >>, << "two" >> >>
ScriptBlankSegments == << << WS >>, << WS >> >>
ScriptLoneThinkOpen == << Spell(ThinkOpen) \o << "Hi" >> >>
ScriptLoneThinkClose == << << "Hi" >> \o Spell(ThinkClose) >>

Scripts ==
    { ScriptUnpairedOpen, ScriptUnpairedClose, ScriptThinking, ScriptFinal,
      ScriptTwoSegments, ScriptSameSegments, ScriptBlankSegment,
      ScriptBlankSegments, ScriptLoneThinkOpen, ScriptLoneThinkClose }

\* The stream options a caller may pass.
StreamOptions ==
    [enforceFinalTag : BOOLEAN, blockReplyBreak : { "", "message_end" },
     hasOnBlockReply : BOOLEAN, hasOnPartialReply : { TRUE },
     verboseLevel : { "off" }, hasOnToolResult : { FALSE },
     shouldEmitToolResult : { "undefined" }, workspaceDir : { "wsA" }]

ScriptRun == 1

\* Run 1 (no session key, default lane, no abortSignal), called with the stream
\* options o, went through its lanes and awaits session.prompt.
InitPrompting(o) ==
    /\ nextRun = 2
    /\ params =
            [r \in Runs |->
               IF r = ScriptRun
                 THEN [sessionId |-> <<"a">>, sessionKey |-> <<>>, lane |-> <<>>,
                       hasSignal |-> FALSE, enforceFinalTag |-> o.enforceFinalTag,
                       blockReplyBreak |-> o.blockReplyBreak,
                       hasOnBlockReply |-> o.hasOnBlockReply,
                       hasOnPartialReply |-> o.hasOnPartialReply,
                       verboseLevel |-> o.verboseLevel,
                       hasOnToolResult |-> o.hasOnToolResult,
                       shouldEmitToolResult |-> o.shouldEmitToolResult,
                       workspaceDir |-> o.workspaceDir]
                 ELSE NoParams]
    /\ laneQueue = [l \in LaneNames |-> <<>>]
    /\ laneActive =
         [l \in LaneNames |->
            IF l = SessionLaneOf(ScriptRun) THEN SessionTask(ScriptRun)
            ELSE IF l = GlobalLaneOf(ScriptRun) THEN GlobalTask(ScriptRun)
            ELSE NoTask]
    /\ pc = [r \in Runs |-> IF r = ScriptRun THEN "prompting" ELSE "idle"]
    /\ ACTIVE_EMBEDDED_RUNS = [s \in SessionIds |-> IF s = <<"a">> THEN ScriptRun ELSE 0]
    /\ aborted = [r \in Runs |-> FALSE]
    /\ sessionAbortCalls = [r \in Runs |-> 0]
    /\ abortTimer = [r \in Runs |-> IF r = ScriptRun THEN "armed" ELSE "unset"]
    /\ abortWarnTimer = [r \in Runs |-> "unset"]
    /\ signalAborted = [r \in Runs |-> FALSE]
    /\ listenerAttached = [r \in Runs |-> FALSE]
    /\ session = [r \in Runs |-> IF r = ScriptRun THEN "open" ELSE "none"]
    /\ subscribed = [r \in Runs |-> r = ScriptRun]
    /\ promptError = [r \in Runs |-> FALSE]
    /\ outcome = [r \in Runs |-> NoOutcome]
    /\ abortCallsLeft = MaxAbortCalls
    /\ settledAfterTimeout = [r \in Runs |-> FALSE]
    /\ handleAtCleanup = [r \in Runs |-> 0]
    /\ lastEvent = [r \in Runs |-> NoEvent]
    /\ compactionInFlight = [r \in Runs |-> FALSE]
    /\ pendingCompactionRetry = [r \in Runs |-> 0]
    /\ compactionRetryPromise = [r \in Runs |-> "null"]
    /\ assistantTexts = [r \in Runs |-> <<>>]
    /\ toolMetas = [r \in Runs |-> <<>>]
    /\ toolMetaById = [r \in Runs |-> EmptyMap]
    /\ deltaBuffer = [r \in Runs |-> <<>>]
    /\ lastStreamedAssistant = [r \in Runs |-> Undefined]
    /\ lastBlockReplyText = [r \in Runs |-> Undefined]
    /\ assistantTextBaseline = [r \in Runs |-> 0]
    /\ streamEvents = 0
    /\ partialReplies = [r \in Runs |-> <<>>]
    /\ blockReplies = [r \in Runs |-> <<>>]
    /\ forwardedResult = [r \in Runs |-> NothingForwarded]
    /\ payloads = [r \in Runs |-> <<>>]
    /\ deltasSinceReset = [r \in Runs |-> <<>>]
    /\ blocksSinceMessageEnd = [r \in Runs |-> 0]
    /\ cwd = o.workspaceDir
    /\ prevCwd = [r \in Runs |-> IF r = ScriptRun THEN "home" ELSE "none"]
    /\ envOverrides = { ScriptRun }
    /\ silentCall = NoCall
    /\ InitExtras

\* The session of the run is about to stream a script.
InitScript ==
    /\ \E o \in StreamOptions : InitPrompting(o)
    /\ \E script \in Scripts :
          streaming =
            [r \in Runs |->
               IF r = ScriptRun
                 THEN [script |-> script, segment |-> 1, offset |-> 0,
                       errorText |-> Undefined]
                 ELSE NotStreaming]

\* The segment the session is streaming, and what is left of it.
InSegment(r) == streaming[r].segment \in 1..Len(streaming[r].script)
CurrentSegment(r) == streaming[r].script[streaming[r].segment]
RestOfSegment(r) ==
    SubSeq(CurrentSegment(r), streaming[r].offset + 1, Len(CurrentSegment(r)))

\* The session streams text of the segment: a text_delta carries its next n
\* tokens (at least one); a text_end closes the segment and carries the rest of
\* its text, if any is left.
ScriptText(r, type, n) ==
    /\ InSegment(r)
    /\ n \in 0..Len(RestOfSegment(r))
    /\ type = "text_delta" => n >= 1
    /\ type = "text_end" => n = Len(RestOfSegment(r))
    /\ \E chunk \in { SubSeq(RestOfSegment(r), 1, n) } :
          MessageUpdate(r, [type |-> type, delta |-> chunk])
    /\ streaming' =
          IF type = "text_delta"
            THEN [streaming EXCEPT ![r].offset = @ + n]
            ELSE [streaming EXCEPT ![r].segment = @ + 1, ![r].offset = 0]

\* The session closes the assistant message.
ScriptMessageEnd(r) ==
    /\ MessageStreamed(r)
    /\ MessageEnd(r, extractAssistantText(streaming[r].script))
    /\ streaming' = [streaming EXCEPT ![r].segment = @ + 1]

NextScript ==
    \/ \E r \in Runs :
          /\ InSegment(r)
          /\ \E type \in { "text_delta", "text_end" }, n \in 0..Len(RestOfSegment(r)) :
                ScriptText(r, type, n)
    \/ \E r \in Runs : ScriptMessageEnd(r)
    \/ \E r \in Runs, ok \in BOOLEAN : StreamOver(r) /\ PromptSettle(r, ok)
    \/ \E r \in Runs : CompactionMicrotask(r)
    \/ \E r \in Runs : Finalize(r)

SpecScript == InitScript /\ [][NextScript]_vars

\* ------------------------------------------------------- a run that uses tools
\* One run awaits session.prompt while the tools of its session report partial
\* and final results.
InitTool ==
    /\ \E o \in StreamOptions : ~o.enforceFinalTag /\ ~o.hasOnBlockReply /\ InitPrompting(o)
    /\ streaming = [r \in Runs |-> NotStreaming]

NextTool ==
    \/ /\ streamEvents < MaxStreamEvents
       /\ UNCHANGED streaming
       /\ \/ \E r \in Runs, id \in ToolCallIds, meta \in ToolMetaValues :
                ToolExecutionStart(r, id, meta)
          \/ \E r \in Runs, partialResult \in ToolResults :
                ToolExecutionUpdate(r, partialResult)
          \/ \E r \in Runs, name \in ToolNames, id \in ToolCallIds, result \in ToolResults :
                ToolExecutionEnd(r, name, id, result, "returns")
    \/ \E r \in Runs, ok \in BOOLEAN : PromptSettle(r, ok)
    \/ \E r \in Runs : CompactionMicrotask(r)
    \/ \E r \in Runs : Finalize(r)

SpecTool == InitTool /\ [][NextTool]_vars

\* ---------------------------------------------------- a run through its reply
\* One run with tools: its session streams a message, segment by segment, and
\* runs tools; then the prompt settles and the run assembles its reply.
ReplyOptions ==
    [enforceFinalTag : { FALSE }, blockReplyBreak : { "", "message_end" },
     hasOnBlockReply : { FALSE }, hasOnPartialReply : BOOLEAN,
     verboseLevel : { "off", "on" }, hasOnToolResult : { FALSE },
     shouldEmitToolResult : { "undefined" },
     workspaceDir : { "wsA" }]

ReplyScripts ==
    { <<>>,
      << << WS >> >>,
      << << "MEDIA:a" >> >>,
      << << "hi", "MEDIA:a", WS >>, << "MEDIA:b" >> >> }

\* What formatAssistantErrorText makes of the last assistant message.
ErrorTexts == { Undefined, << WS >>, << WS, "err" >> }

ReplyToolMetas == ToolMetaValues \cup { << "MEDIA:a" >> }

InitReply ==
    /\ \E o \in ReplyOptions : InitPrompting(o)
    /\ \E script \in ReplyScripts, errorText \in ErrorTexts :
          streaming =
            [r \in Runs |->
               IF r = ScriptRun
                 THEN [script |-> script, segment |-> 1, offset |-> 0,
                       errorText |-> errorText]
                 ELSE NotStreaming]

NextReply ==
    \/ \E r \in Runs :
          InSegment(r) /\ \E n \in { Len(RestOfSegment(r)) } : ScriptText(r, "text_end", n)
    \/ \E r \in Runs : ScriptMessageEnd(r)
    \/ /\ streamEvents < MaxStreamEvents
       /\ UNCHANGED streaming
       /\ \/ \E r \in Runs, id \in ToolCallIds, meta \in ReplyToolMetas :
                ToolExecutionStart(r, id, meta)
          \/ \E r \in Runs, name \in ToolNames, id \in ToolCallIds :
                ToolExecutionEnd(r, name, id, NoResult, "returns")
    \/ \E r \in Runs, ok \in BOOLEAN : StreamOver(r) /\ PromptSettle(r, ok)
    \/ \E r \in Runs : CompactionMicrotask(r)
    \/ \E r \in Runs : Finalize(r)

SpecReply == InitReply /\ [][NextReply]_vars

\* ------------------------------------------------- a run of several messages
\* One run awaits session.prompt while its session delivers the text events and
\* the ends of any number of assistant messages, in any order, and compactions
\* that will be retried. A text_start event carries nothing, a text_delta event
\* its delta, a text_end event nothing or the content of the segment.
MessageOptions ==
    [enforceFinalTag : { FALSE }, blockReplyBreak : { "", "message_end" },
     hasOnBlockReply : { TRUE }, hasOnPartialReply : { TRUE },
     verboseLevel : { "off" }, hasOnToolResult : { FALSE },
     shouldEmitToolResult : { "undefined" }, workspaceDir : { "wsA" }]

AssistantEvents ==
    { [type |-> "text_start"],
      [type |-> "text_delta", delta |-> << "x" >>],
      [type |-> "text_delta", delta |-> << WS >>],
      [type |-> "text_end"],
      [type |-> "text_end", content |-> << "x" >>] }

MessageRaws == { <<>>, << "x" >> }

InitMessages ==
    /\ \E o \in MessageOptions : InitPrompting(o)
    /\ streaming = [r \in Runs |-> NotStreaming]

NextMessages ==
    \/ /\ streamEvents < MaxStreamEvents
       /\ UNCHANGED streaming
       /\ \/ \E r \in Runs, e \in AssistantEvents : MessageUpdate(r, e)
          \/ \E r \in Runs, raw \in MessageRaws : MessageEnd(r, raw)
    \/ \E r \in Runs : AutoCompactionEnd(r, TRUE)

SpecMessages == InitMessages /\ [][NextMessages]_vars

\* ------------------------------------------------------------ silent replies
\* isSilentReplyText(text, token = "NO_REPLY") of ./tokens.js, as its test suite
\* (describe("isSilentReplyText")) pins it down: the text, without the white
\* space around it, is the token. A string is a list of tokens, WS and NL the
\* white space ones.
IsSpace(tok) == tok \in { WS, NL }

RECURSIVE TrimSpaceLeft(_)
TrimSpaceLeft(text) ==
    IF text # <<>> /\ IsSpace(Head(text)) THEN TrimSpaceLeft(Tail(text)) ELSE text

RECURSIVE TrimSpaceRight(_)
TrimSpaceRight(text) ==
    IF text # <<>> /\ IsSpace(text[Len(text)])
      THEN TrimSpaceRight(SubSeq(text, 1, Len(text) - 1))
      ELSE text

SILENT_REPLY_TOKEN == << "NO_REPLY" >>

\* Mutant: a text that ends with the token is silent, whatever comes before.
isSilentReplyTextSuffix(text, token) ==
    LET tok == IF token = Undefined THEN SILENT_REPLY_TOKEN ELSE token
        trimmed == TrimSpaceRight(text)
    IN  IF text = Undefined \/ text = <<>>
          THEN FALSE
          ELSE trimmed # <<>> /\ << trimmed[Len(trimmed)] >> = tok

isSilentReplyText(text, token) ==
    LET tok == IF token = Undefined THEN SILENT_REPLY_TOKEN ELSE token
    IN  IF text = Undefined \/ text = <<>>
          THEN FALSE
          ELSE TrimSpaceLeft(TrimSpaceRight(text)) = tok

\* The calls of the test suite with the results it expects.
SilentTests ==
    { [text |-> << "NO_REPLY" >>, token |-> Undefined, expected |-> TRUE],
      [text |-> << WS, WS, "NO_REPLY", WS, WS >>, token |-> Undefined, expected |-> TRUE],
      [text |-> << NL, "NO_REPLY", NL >>, token |-> Undefined, expected |-> TRUE],
      [text |-> Undefined, token |-> Undefined, expected |-> FALSE],
      [text |-> <<>>, token |-> Undefined, expected |-> FALSE],
      [text |-> << "helpful", NL, NL, "NO_REPLY" >>, token |-> Undefined,
       expected |-> FALSE],
      [text |-> << "NO_REPLY", WS, "more" >>, token |-> Undefined, expected |-> FALSE],
      [text |-> << "Please", WS, "NO_REPLY", WS, "to" >>, token |-> Undefined,
       expected |-> FALSE],
      [text |-> << "HEARTBEAT_OK" >>, token |-> << "HEARTBEAT_OK" >>, expected |-> TRUE],
      [text |-> << "Checked", WS, "HEARTBEAT_OK" >>, token |-> << "HEARTBEAT_OK" >>,
       expected |-> FALSE] }

\* The texts and tokens of the calls: those of the tests, and every text of up
\* to three tokens.
SilentAlphabet == { WS, NL, "NO_REPLY", "HEARTBEAT_OK", "more" }

SilentTexts ==
    { t.text : t \in SilentTests }
      \cup { <<>> }
      \cup { << a >> : a \in SilentAlphabet }
      \cup { << a, b >> : a \in SilentAlphabet, b \in SilentAlphabet }
      \cup { << a, b, c >> : a \in SilentAlphabet, b \in SilentAlphabet,
                             c \in SilentAlphabet }

SilentTokens == { Undefined, << "HEARTBEAT_OK" >> }

\* A caller is about to ask whether a text is a silent reply.
InitSilent ==
    /\ nextRun = 1
    /\ InitRuns
    /\ \E text \in SilentTexts, token \in SilentTokens :
          silentCall = [text |-> text, token |-> token, called |-> FALSE,
                        result |-> FALSE]

SilentCheck ==
    /\ ~silentCall.called
    /\ silentCall' = [silentCall EXCEPT !.called = TRUE,
                                        !.result = isSilentReplyText(silentCall.text,
                                                                      silentCall.token)]
    /\ UNCHANGED << orchVars, compVars, streamVars, streamEvents, observerVars,
                    streaming, processVars, deliveryVars, handleVars, earVars >>

NextSilent == SilentCheck

SpecSilent == InitSilent /\ [][NextSilent]_vars

\* ------------------------------------------------- claims on a scripted stream
\* C11: with enforceFinalTag, once a message whose text holds a lone final
\* marker ("<final>Hi", or "Hi</final>") has been streamed, the finalized block
\* list is the one block "Hi".
C11_LoneFinalMarkerStripped ==
    \A r \in Runs :
        (/\ params[r].enforceFinalTag
         /\ streaming[r].script \in { ScriptUnpairedOpen, ScriptUnpairedClose }
         /\ StreamOver(r))
        => assistantTexts[r] = << << "Hi" >> >>

\* Whether a token occurs in a text.
HasToken(text, tok) == \E i \in 1..Len(text) : text[i] = tok

\* C12: however the text "<think>x</think>Hello" is split into text deltas, the
\* thinking text "x" is in no finalized block and in no partial reply at any
\* time, and once the message has been streamed the block list is the one
\* block "Hello".
C12_ThinkingNeverShown ==
    \A r \in Runs :
        streaming[r].script = ScriptThinking
        => /\ \A i \in 1..Len(assistantTexts[r]) : ~HasToken(assistantTexts[r][i], "x")
           /\ \A i \in 1..Len(partialReplies[r]) : ~HasToken(partialReplies[r][i].text, "x")
           /\ StreamOver(r) => assistantTexts[r] = << << "Hello" >> >>

\* The texts of the onBlockReply calls of r, in call order.
BlockReplyTexts(r) == [i \in 1..Len(blockReplies[r]) |-> blockReplies[r][i].text]

\* C13: with enforceFinalTag, once the text "noise<final>Hi</final>more" has
\* been streamed (split into deltas in any way), the finalized block list is
\* the one block "Hi", and a block-reply observer was given "Hi" and nothing
\* else.
C13_FinalTagContentOnly ==
    \A r \in Runs :
        (/\ params[r].enforceFinalTag
         /\ streaming[r].script = ScriptFinal
         /\ StreamOver(r))
        => /\ assistantTexts[r] = << << "Hi" >> >>
           /\ params[r].hasOnBlockReply => BlockReplyTexts(r) = << << "Hi" >> >>

C13_Witness ==
    \E r \in Runs :
        /\ params[r].enforceFinalTag
        /\ params[r].hasOnBlockReply
        /\ streaming[r].script = ScriptFinal
        /\ StreamOver(r)
        /\ assistantTexts[r] = << << "Hi" >> >>
        /\ BlockReplyTexts(r) = << << "Hi" >> >>

\* The cleaned text of one text segment: what message_update derives from a
\* buffer that holds the whole segment.
SegmentText(r, segment) ==
    NextText(params[r].enforceFinalTag, CleanedText(params[r].enforceFinalTag, segment))

\* The events the onBlockReply calls of r were made at, in call order.
BlockReplyEvents(r) == [i \in 1..Len(blockReplies[r]) |-> blockReplies[r][i].at]

\* The finalized blocks are the cleaned texts of the two segments, in segment
\* order, and a block-reply observer got them in that order at the segment ends.
TwoBlocksInSegmentOrder(r) ==
    LET script == streaming[r].script
        expected == << SegmentText(r, script[1]), SegmentText(r, script[2]) >>
    IN  /\ assistantTexts[r] = expected
        /\ params[r].hasOnBlockReply
           => /\ BlockReplyTexts(r) = expected
              /\ BlockReplyEvents(r) = << "text_end", "text_end" >>

OneBlockAtMessageEnd(r) ==
    LET full == extractAssistantText(streaming[r].script)
    IN  /\ assistantTexts[r] = << full >>
        /\ params[r].hasOnBlockReply
           => /\ BlockReplyTexts(r) = << full >>
              /\ BlockReplyEvents(r) = << "message_end" >>

\* C15 as stated: blocks breaking at message_end, no block is finalized and no
\* block reply made before the message ends, and once a message of two text
\* segments has been streamed there is exactly one finalized block, the full
\* message text, given to a block-reply observer once, at the message end.
C15_TwoSegmentsOneBlock ==
    \A r \in Runs :
        (/\ params[r].blockReplyBreak = "message_end"
         /\ Len(streaming[r].script) = 2)
        => /\ ~StreamOver(r) => assistantTexts[r] = <<>> /\ blockReplies[r] = <<>>
           /\ StreamOver(r) => OneBlockAtMessageEnd(r)

\* C15 amended: the same, for a message whose full text is not empty (a message
\* whose text is empty makes no block).
C15_TwoSegmentsWithTextOneBlock ==
    \A r \in Runs :
        (/\ params[r].blockReplyBreak = "message_end"
         /\ Len(streaming[r].script) = 2
         /\ extractAssistantText(streaming[r].script) # <<>>)
        => /\ ~StreamOver(r) => assistantTexts[r] = <<>> /\ blockReplies[r] = <<>>
           /\ StreamOver(r) => OneBlockAtMessageEnd(r)

C15_Witness ==
    \E r \in Runs :
        /\ params[r].blockReplyBreak = "message_end"
        /\ params[r].hasOnBlockReply
        /\ streaming[r].script = ScriptTwoSegments
        /\ StreamOver(r)
        /\ assistantTexts[r] = << << "one", NL, "two" >> >>
        /\ blockReplies[r] =
             << [text |-> << "one", NL, "two" >>, mediaUrls |-> <<>>, at |-> "message_end"] >>

\* ------------------------------------------------------- claims on tool results
\* The image items of a result that hold data.
ImagesWithData(result) ==
    IF result = NoResult \/ "content" \notin DOMAIN result
      THEN {}
      ELSE { i \in 1..Len(result.content) :
               /\ "type" \in DOMAIN result.content[i]
               /\ result.content[i].type = "image"
               /\ "data" \in DOMAIN result.content[i]
               /\ result.content[i].data > 0 }

Candidates(r) ==
    LET OfText(text) ==
            [text |-> splitMediaFromOutput(text).text,
             media |-> splitMediaFromOutput(text).mediaUrls]
        error == IF StreamOver(r) /\ streaming[r].errorText # Undefined
                   THEN << [text |-> Trim(streaming[r].errorText), media |-> <<>>] >>
                   ELSE <<>>
        tools == IF /\ params[r].verboseLevel = "on"
                    /\ ~params[r].hasOnPartialReply
                    /\ ~params[r].hasOnToolResult
                   THEN [i \in 1..Len(toolMetas[r]) |->
                           OfText(<< toolMetas[r][i].toolName >>
                                    \o (IF toolMetas[r][i].meta = Undefined THEN <<>>
                                        ELSE toolMetas[r][i].meta))]
                   ELSE <<>>
        blocks == IF assistantTexts[r] # <<>>
                    THEN [i \in 1..Len(assistantTexts[r]) |-> OfText(assistantTexts[r][i])]
                  ELSE IF StreamOver(r)
                    THEN << OfText(extractAssistantText(streaming[r].script)) >>
                  ELSE <<>>
    IN  error \o tools \o blocks

\* C17: when a run has returned, every item of its payload has a non-empty
\* trimmed text or at least one media reference, and the payload is the list of
\* candidates without those that have neither, in the order of the candidates.
C17_PayloadItemsCarrySomething ==
    \A r \in Runs :
        (pc[r] = "done" /\ outcome[r].kind = "returned")
        => /\ \A i \in 1..Len(payloads[r]) :
                 \/ /\ payloads[r][i].text # Undefined
                    /\ payloads[r][i].text # <<>>
                    /\ payloads[r][i].text = Trim(payloads[r][i].text)
                 \/ /\ payloads[r][i].mediaUrls # Undefined
                    /\ Len(payloads[r][i].mediaUrls) >= 1
           /\ LET kept == SelectSeq(Candidates(r),
                                    LAMBDA c : c.text # <<>> \/ c.media # <<>>)
              IN  /\ Len(payloads[r]) = Len(kept)
                  /\ \A i \in 1..Len(kept) :
                        /\ payloads[r][i].text =
                             (IF kept[i].text # <<>> THEN kept[i].text ELSE Undefined)
                        /\ payloads[r][i].mediaUrls =
                             (IF kept[i].media # <<>> THEN kept[i].media ELSE Undefined)

\* A returned payload with an error text, a tool summary and two blocks, the
\* second one media only.
C17_Witness ==
    \E r \in Runs :
        /\ pc[r] = "done"
        /\ outcome[r].kind = "returned"
        /\ Len(payloads[r]) = 4
        /\ payloads[r][1].text = << "err" >>
        /\ payloads[r][2].text = << "bash", "ls" >>
        /\ payloads[r][3].text = << "hi" >>
        /\ payloads[r][3].mediaUrls = << "MEDIA:a" >>
        /\ payloads[r][4].text = Undefined
        /\ payloads[r][4].mediaUrls = << "MEDIA:b" >>

\* ------------------------------------------------------- claims on lane failures
\* The run rejected: model resolution (unknown model, no credentials) or the
\* prompt failed.
Failed(r) ==
    /\ pc[r] = "done"
    /\ outcome[r].kind = "rejected"
    /\ outcome[r].error \in { "model", "prompt" }

Queued(r) == pc[r] \in { "queuedSession", "queuedGlobal" }

\* C18: once a run has failed, every run that waits in a lane gets to execute
\* its body; and the step in which a run is rejected settles no other run: the
\* other runs' outcomes and positions are as before.
C18_FailureDoesNotBlockLanes ==
    /\ \A o \in Runs :
          (Queued(o) /\ \E r \in Runs : Failed(r))
            ~> (pc[o] \notin { "idle", "queuedSession", "queuedGlobal" })
    /\ [][\A r \in Runs :
             (outcome[r] = NoOutcome /\ outcome'[r].kind = "rejected")
             => \A o \in Runs \ { r } : outcome'[o] = outcome[o] /\ pc'[o] = pc[o]]_vars

\* A run failed, and a later run of the same session lane and the same global
\* lane returned.
C18_Witness ==
    \E r, o \in Runs :
        /\ r < o
        /\ Failed(r)
        /\ SessionLaneOf(r) = SessionLaneOf(o)
        /\ GlobalLaneOf(r) = GlobalLaneOf(o)
        /\ pc[o] = "done"
        /\ outcome[o].kind = "returned"

\* ------------------------------------------------- claims on the process state
\* The body of the run has changed directory and has not left yet.
InWorkspace(r) ==
    pc[r] \notin { "idle", "queuedSession", "queuedGlobal", "resolving", "preparing",
                   "opening", "done" }

\* C19: the step in which a run leaves, having changed directory or being at
\* the session preparation that starts with the change, puts the process back
\* into the directory the run's body found when it started, and takes the run's
\* overrides out of the environment.
C19_RestoresCwdAndEnv ==
    [][\A r \in Runs :
          ((InWorkspace(r) \/ pc[r] = "opening") /\ pc'[r] = "done")
          => /\ cwd' = prevCwd[r]
             /\ r \notin envOverrides']_vars

\* A run whose body started inside another run's workspace failed after the
\* change of directory and left the process in that workspace.
C19_Witness ==
    \E r \in Runs :
        /\ pc[r] = "done"
        /\ outcome[r].kind = "rejected"
        /\ outcome[r].error \in { "session", "history", "subscribe", "listener", "prompt" }
        /\ params[r].workspaceDir = "wsB"
        /\ prevCwd[r] = "wsA"
        /\ cwd = "wsA"
        /\ envOverrides = {}

\* ------------------------------------------------------ claims on silent replies
\* The text is the token with nothing but white space around it.
TokenAlone(text, tok) ==
    /\ text # Undefined
    /\ \E i \in 1..Len(text) :
          /\ << text[i] >> = tok
          /\ \A j \in 1..Len(text) : j # i => IsSpace(text[j])

C21_SnapshotAfterDrain ==
    [][\A r \in Runs :
          (pc[r] = "released" /\ pc'[r] = "done")
          => (~compactionInFlight[r] /\ pendingCompactionRetry[r] = 0)]_vars

\* The run has settled and none of its tasks holds a lane.
LanesReleased(r) ==
    /\ pc[r] = "done"
    /\ \A l \in LaneNames : laneActive[l] \notin { SessionTask(r), GlobalTask(r) }

\* The abort of the run was requested after its timeout fired, and the run is in
\* the compaction wait.
AbortedInWait(r) ==
    /\ pc[r] = "waiting"
    /\ abortTimer[r] = "fired"
    /\ aborted[r]

\* C22: every run whose session was opened gets to the cleanup and releases its
\* lanes; in particular a run that is in the compaction wait after its timeout
\* fired and its abort was requested leaves the wait, whatever events the
\* session still emits.
C22_OpenedRunReachesCleanup ==
    /\ \A r \in Runs : AbortedInWait(r) ~> (CleanedUp(r) /\ LanesReleased(r))
    /\ \A r \in Runs : (session[r] = "open") ~> (CleanedUp(r) /\ LanesReleased(r))

\* ------------------------------------------- claims on a run of several messages
\* No two neighbours of the list are equal.
NoAdjacentEqual(list) == \A i \in 1..(Len(list) - 1) : list[i] # list[i + 1]

\* No compaction retry has reset the accumulator of r (no agent_end settles a
\* retry while the events of SpecMessages are delivered).
NoRetrySoFar(r) == pendingCompactionRetry[r] = 0

\* C23: blocks breaking at text_end, as long as no compaction is retried the
\* block list holds no two adjacent identical blocks and no two successive
\* onBlockReply calls carry the same text, whatever text events and message
\* ends the session delivers.
C23_NoAdjacentIdenticalBlocks ==
    \A r \in Runs :
        (BlockReplyBreakOf(r) = "text_end" /\ NoRetrySoFar(r))
        => /\ NoAdjacentEqual(assistantTexts[r])
           /\ NoAdjacentEqual(BlockReplyTexts(r))

\* C24: blocks breaking at message_end, as long as no compaction is retried a
\* message whose text is the block finalized and forwarded last is neither
\* forwarded to onBlockReply again nor finalized as a second identical block.
C24_MessageEndSuppressesDuplicate ==
    \A r \in Runs :
        (BlockReplyBreakOf(r) = "message_end" /\ NoRetrySoFar(r))
        => /\ NoAdjacentEqual(BlockReplyTexts(r))
           /\ NoAdjacentEqual(assistantTexts[r])

\* C25: the delta buffer of a run is the concatenation, in order, of the deltas
\* of the text events handled since the buffer was last emptied; an event that
\* carries content and no delta adds nothing to it.
C25_BufferIsDeltasInOrder ==
    \A r \in Runs : deltaBuffer[r] = deltasSinceReset[r]

\* C29: a partial reply is sent only when the derived text is non-empty and is
\* not the text of the last partial reply sent since the dedupe state was
\* reset: lastStreamedAssistant is that last text, and every step that sends a
\* partial reply sends one, non-empty and different from it, so an event that
\* leaves the derived text as it was sends nothing.
C29_PartialOnlyWhenTextChanges ==
    /\ [](\A r \in Runs :
            lastStreamedAssistant[r] # Undefined
            => /\ partialReplies[r] # <<>>
               /\ partialReplies[r][Len(partialReplies[r])].derived
                    = lastStreamedAssistant[r])
    /\ [][\A r \in Runs :
            partialReplies'[r] # partialReplies[r]
            => \E reply \in { partialReplies'[r][Len(partialReplies'[r])] } :
                  /\ partialReplies'[r] = Append(partialReplies[r], reply)
                  /\ reply.derived # <<>>
                  /\ reply.derived # lastStreamedAssistant[r]
                  /\ lastStreamedAssistant'[r] \in { reply.derived, Undefined }]_vars

\* A delta of white space arrived after "x" and left the derived text "x": one
\* partial reply was sent, not two.
C29_Witness ==
    \E r \in Runs :
        /\ deltaBuffer[r] = << "x", WS >>
        /\ Len(partialReplies[r]) = 1
        /\ lastStreamedAssistant[r] = << "x" >>

\* The fallback text of a message completion.
FallbackText(r, raw) ==
    MessageText(params[r].enforceFinalTag, CleanedText(params[r].enforceFinalTag, raw))

\* C30: a message completion appends its fallback text to the block list
\* exactly when that text is non-empty and no block was finalized since the
\* previous message completion or compaction reset, and otherwise leaves the
\* list as it is; a completed message with a non-empty text leaves a block.
C30_FallbackIffNoBlockSince ==
    [][\A r \in Runs : \A raw \in MessageRaws :
          MessageEnd(r, raw)
          => /\ assistantTexts'[r] =
                  IF FallbackText(r, raw) # <<>> /\ blocksSinceMessageEnd[r] = 0
                    THEN Append(assistantTexts[r], FallbackText(r, raw))
                    ELSE assistantTexts[r]
             /\ FallbackText(r, raw) # <<>> => assistantTexts'[r] # <<>>]_vars

\* After a compaction reset a message that streamed no block completed with
\* the text "x": the block list holds that fallback block, and no block reply
\* was sent for it (blocks break at text_end).
C30_Witness ==
    \E r \in Runs :
        /\ BlockReplyBreakOf(r) = "text_end"
        /\ pendingCompactionRetry[r] >= 1
        /\ assistantTexts[r] = << << "x" >> >>
        /\ assistantTextBaseline[r] = 1
        /\ blockReplies[r] = <<>>

\* ------------------------------------------------- claims on stray thinking markers
\* C28: a message whose text holds one thinking marker without its partner (an
\* opening one before "Hi", or a closing one after it) ends with the block
\* "Hi": the marker alone is removed and the text is kept, with and without
\* enforceFinalTag.
C28_StrayThinkingMarkerOnlyStripped ==
    \A r \in Runs :
        (/\ streaming[r] # NotStreaming
         /\ streaming[r].script \in { ScriptLoneThinkOpen, ScriptLoneThinkClose }
         /\ StreamOver(r))
        => assistantTexts[r] = << << "Hi" >> >>

\* ------------------------------------------------------ claims on cancellation
\* The prompt of r has failed and no abort has been requested so far; the run
\* has not reached its cleanup yet.
PromptFailedBeforeAbort(r) ==
    /\ pc[r] \in { "microtask", "waiting", "released" }
    /\ promptError[r]
    /\ ~aborted[r]
    /\ sessionAbortCalls[r] = 0

\* C26: a prompt failure that settled before any abort was requested is
\* rethrown to the caller, whatever is aborted afterwards: once the prompt
\* has failed with no abort requested, the run ends rejected with that error.
C26_EarlierPromptErrorRethrown ==
    \A r \in Runs :
        [](PromptFailedBeforeAbort(r)
           => [](pc[r] = "done" => outcome[r] = Rejected("prompt")))

\* Between the registration of the handle and the cleanup: the body awaits the
\* prompt or the compaction wait.
BetweenRegistrationAndCleanup(r) ==
    pc[r] \in { "prompting", "microtask", "waiting", "released" }

\* A step in which a cancellation source of r occurs: the timeout fires, the
\* caller's signal aborts while r is between registration and cleanup, the
\* wiring finds the signal aborted already, or abortEmbeddedPiRun is called
\* for the session id while the registry holds r's handle.
CancellationOccurs(r) ==
    \/ TimerFire(r)
    \/ BetweenRegistrationAndCleanup(r) /\ SignalAbort(r)
    \/ /\ pc[r] = "registering"
       /\ params[r].hasSignal
       /\ signalAborted[r]
       /\ pc'[r] = "prompting"
    \/ /\ BetweenRegistrationAndCleanup(r)
       /\ ACTIVE_EMBEDDED_RUNS[params[r].sessionId] = r
       /\ abortEmbeddedPiRun(params[r].sessionId)

\* C27: every cancellation source of a run goes through abortRun (the flag is
\* set and the session is asked to stop once more), and nothing else calls it
\* while the run is under way; a run that returns reports meta.aborted true
\* exactly when some source occurred; and a run past its cleanup has no
\* listener attached and no timer that can fire.
C27_CancellationSourcesConverge ==
    /\ [][\A r \in Runs :
            /\ CancellationOccurs(r)
                 => (aborted'[r] /\ sessionAbortCalls'[r] = sessionAbortCalls[r] + 1)
            /\ (pc[r] # "done" /\ sessionAbortCalls'[r] # sessionAbortCalls[r])
                 => CancellationOccurs(r)]_vars
    /\ [](\A r \in Runs :
            /\ (pc[r] = "done" /\ outcome[r].kind = "returned")
                 => outcome[r].aborted = (sessionAbortCalls[r] > 0)
            /\ (pc[r] = "done" /\ session[r] = "disposed" /\ sessionAbortCalls[r] > 0)
                 => outcome[r] = Returned(TRUE)
            /\ (pc[r] = "done" /\ session[r] = "disposed")
                 => /\ ~listenerAttached[r]
                    /\ ~ENABLED TimerFire(r)
                    /\ ~ENABLED WarnTimerFire(r))

\* The caller's signal aborted a run in mid-flight: no timeout fired, nobody
\* called abortEmbeddedPiRun, and the run returned with meta.aborted true.
C27_Witness ==
    \E r \in Runs :
        /\ pc[r] = "done"
        /\ outcome[r] = Returned(TRUE)
        /\ signalAborted[r]
        /\ sessionAbortCalls[r] = 1
        /\ abortTimer[r] = "cleared"
        /\ abortCallsLeft = MaxAbortCalls

\* ---------------------------------------------------------------------------
\* Delivery of tool results: a run whose session ends tools, under every
\* combination of verbose level, tool-result observer and emit predicate.

ObserverOptions ==
    [enforceFinalTag : { FALSE }, blockReplyBreak : { "" },
     hasOnBlockReply : { FALSE }, hasOnPartialReply : BOOLEAN,
     verboseLevel : { "off", "on" }, hasOnToolResult : BOOLEAN,
     shouldEmitToolResult : { "undefined", "true", "false" },
     workspaceDir : { "wsA" }]

\* The promise params.onToolResult returned is rejected and nothing holds it:
\* Node reports it once the microtasks are drained. A host that listens for
\* 'unhandledRejection' keeps the process, otherwise the rejection is raised as
\* an uncaught exception and the process ends.
UnhandledRejection(r, hostListens) ==
    /\ unhandledRejections[r] > 0
    /\ unhandledRejections' = [unhandledRejections EXCEPT ![r] = @ - 1]
    /\ nodeProcess' = IF hostListens THEN nodeProcess ELSE "exited"
    /\ UNCHANGED << orchVars, compVars, streamVars, streamEvents, observerVars,
                    streaming, processVars, silentCall, toolResultCalls, handlerThrew,
                    handleVars, earVars >>

InitObserver ==
    /\ \E o \in ObserverOptions : InitPrompting(o)
    /\ streaming = [r \in Runs |-> NotStreaming]

NextObserver ==
    /\ nodeProcess = "running"
    /\ \/ /\ streamEvents < MaxStreamEvents
          /\ UNCHANGED streaming
          /\ \/ \E r \in Runs, id \in ToolCallIds, meta \in ToolMetaValues :
                   ToolExecutionStart(r, id, meta)
             \/ \E r \in Runs, name \in ToolNames, id \in ToolCallIds,
                   observer \in ObserverBehaviours :
                   ToolExecutionEnd(r, name, id, NoResult, observer)
       \/ \E r \in Runs, hostListens \in BOOLEAN : UnhandledRejection(r, hostListens)
       \/ \E r \in Runs, ok \in BOOLEAN : PromptSettle(r, ok)
       \/ \E r \in Runs : CompactionMicrotask(r)
       \/ \E r \in Runs : Finalize(r)

SpecObserver == InitObserver /\ [][NextObserver]_vars

\* C31: whatever the tool-result observer does when it is called (return,
\* throw, return a rejected promise), nothing leaves the stream handler, the
\* tool record of the event is appended, and a run that has not left yet is
\* still in a running process (so later events are handled and the run returns).
C31_ObserverFailureNeverAbortsRun ==
    \A r \in Runs :
       /\ ~handlerThrew[r]
       /\ Len(toolResultCalls[r]) <= Len(toolMetas[r])
       /\ (pc[r] \notin { "idle", "done" } => nodeProcess = "running")

\* C32: a run returns inline tool summaries only if verbose mode is on and no
\* tool-result observer was supplied, and a run whose observer was handed a
\* tool result returns no inline summary (no text is streamed in these runs, so
\* the payloads of a run are its inline summaries).
C32_InlineOnlyWithoutLiveObserver ==
    \A r \in Runs :
       /\ payloads[r] # <<>> =>
             params[r].verboseLevel = "on" /\ ~params[r].hasOnToolResult
       /\ InlineToolItems(r) # <<>> =>
             params[r].verboseLevel = "on" /\ ~params[r].hasOnToolResult
       /\ toolResultCalls[r] # <<>> =>
             /\ params[r].hasOnToolResult
             /\ payloads[r] = <<>>
             /\ InlineToolItems(r) = <<>>

\* A run returned inline summaries of its tools, or a run whose observer was
\* handed tool results returned.
C32_Witness ==
    \E r \in Runs :
       /\ outcome[r] = Returned(FALSE)
       /\ toolMetas[r] # <<>>
       /\ \/ payloads[r] # <<>> /\ toolResultCalls[r] = <<>>
          \/ toolResultCalls[r] # <<>> /\ params[r].verboseLevel = "on"

\* list is an initial part of longer, which has at most one element more.
GrownAtEndByAtMostOne(list, longer) ==
    /\ Len(longer) \in { Len(list), Len(list) + 1 }
    /\ SubSeq(longer, 1, Len(list)) = list

\* C33: stream events are handled one at a time and in order: a step handles at
\* most one event, and what it adds to the block list, to the block-reply
\* calls and to the partial-reply calls of a run is one element at the end, after
\* everything the earlier events put there (the block list is otherwise only
\* emptied, by the reset for a compaction retry).
C33_EventsHandledInOrder ==
    [][\A r \in Runs :
          /\ streamEvents' \in { streamEvents, streamEvents + 1 }
          /\ GrownAtEndByAtMostOne(blockReplies[r], blockReplies'[r])
          /\ GrownAtEndByAtMostOne(partialReplies[r], partialReplies'[r])
          /\ \/ GrownAtEndByAtMostOne(assistantTexts[r], assistantTexts'[r])
             \/ assistantTexts'[r] = <<>> /\ toolMetas'[r] = <<>>]_vars

\* Two events of a run each finalized a block and had it sent to the
\* block-reply observer.
C33_Witness ==
    \E r \in Runs :
       /\ Len(assistantTexts[r]) >= 2
       /\ Len(blockReplies[r]) >= 2
       /\ assistantTexts[r][1] # assistantTexts[r][2]
       /\ streamEvents >= 2

\* C34: the step in which a run is rejected because its model or its
\* credentials cannot be resolved creates nothing and changes nothing of the
\* process: the run has no session, no subscription, no timer, no listener and
\* no registry entry, before and after, and the working directory, the
\* environment overrides and the registry are left as they are.
C34_FatalBeforeSession ==
    [][\A r \in Runs :
          (outcome'[r] = Rejected("model") /\ outcome[r] # Rejected("model")) =>
             /\ UNCHANGED << processVars, ACTIVE_EMBEDDED_RUNS, sessionVars, timerVars,
                             signalVars, abortVars >>
             /\ session[r] = "none"
             /\ ~subscribed[r]
             /\ abortTimer[r] = "unset" /\ abortWarnTimer[r] = "unset"
             /\ ~listenerAttached[r]
             /\ r \notin envOverrides
             /\ \A s \in SessionIds : ACTIVE_EMBEDDED_RUNS[s] # r]_vars

\* A run was rejected for its model while another run has its session open.
C34_Witness ==
    \E r, other \in Runs :
       /\ outcome[r] = Rejected("model")
       /\ session[r] = "none"
       /\ session[other] = "open"

\* A step in which other code called abortEmbeddedPiRun or
\* queueEmbeddedPiMessage (handleCall' describes the call).
HandleCalled == abortCallsLeft' < abortCallsLeft

\* C35: queueEmbeddedPiMessage returns true and hands the text to the handle's
\* queueMessage exactly when the registry holds a handle for the session id and
\* that session says it is streaming; abortEmbeddedPiRun returns true and calls
\* the handle's abort exactly when the registry holds a handle; a call that
\* returns false changes nothing, and no call changes the registry.
C35_HandleCallsActIffRegistered ==
    [][HandleCalled =>
         \E c \in { handleCall' } :
         \E handle \in { ACTIVE_EMBEDDED_RUNS[c.sessionId] } :
            /\ UNCHANGED ACTIVE_EMBEDDED_RUNS
            /\ UNCHANGED << pc, outcome, sessionVars, timerVars, signalVars, compVars,
                            streamVars, observerVars, processVars >>
            /\ c.fn = "queueEmbeddedPiMessage" =>
                 /\ c.returned <=> (handle # 0 /\ c.isStreaming)
                 /\ UNCHANGED abortVars
                 /\ IF c.returned
                      THEN queuedMessages' = [queuedMessages EXCEPT ![handle] = @ + 1]
                      ELSE UNCHANGED queuedMessages
            /\ c.fn = "abortEmbeddedPiRun" =>
                 /\ c.returned <=> handle # 0
                 /\ UNCHANGED queuedMessages
                 /\ IF c.returned
                      THEN /\ aborted' = [aborted EXCEPT ![handle] = TRUE]
                           /\ sessionAbortCalls' =
                                [sessionAbortCalls EXCEPT ![handle] = @ + 1]
                      ELSE UNCHANGED abortVars]_vars

\* A message was queued for a streaming run and a later abortEmbeddedPiRun for
\* the same session id found the handle gone.
C35_Witness ==
    \E r \in Runs :
       /\ queuedMessages[r] = 1
       /\ handleCall.fn = "abortEmbeddedPiRun"
       /\ handleCall.sessionId = params[r].sessionId
       /\ ~handleCall.returned

\* C37: in every state of a run the retry counter is not negative, and the
\* coordinator holds an unresolved promise exactly when a compaction is in
\* flight or a retry is owed.
C37_CompactionStateConsistent ==
    \A r \in Runs :
       /\ pendingCompactionRetry[r] >= 0
       /\ compactionRetryPromise[r] = "pending" <=>
             (compactionInFlight[r] \/ pendingCompactionRetry[r] > 0)

\* A run waited for the promise and was released by the event that cleared what
\* was left of a compaction and its owed retries.
C37_Witness ==
    \E r \in Runs :
       /\ pc[r] = "released"
       /\ lastEvent[r].resolved
       /\ ~compactionInFlight[r]
       /\ pendingCompactionRetry[r] = 0
       /\ compactionRetryPromise[r] = "null"

\* export function isEmbeddedPiRunActive(sessionId)
isEmbeddedPiRunActive(sid) == ACTIVE_EMBEDDED_RUNS[sid] # 0

\* C38: while a run is between the registration of its handle and its cleanup,
\* isEmbeddedPiRunActive of its session id is true.
C38_ActiveWhileAnyRunRegistered ==
    \A r \in Runs :
       BetweenRegistrationAndCleanup(r) => isEmbeddedPiRunActive(params[r].sessionId)

\* Nothing is left that could call abort or queueMessage of r's session: no
\* timer of r is armed, the listener on the caller's signal is detached and
\* the registry does not hold r's handle.
DisposedRunUnreachable(r) ==
    /\ abortTimer[r] # "armed"
    /\ abortWarnTimer[r] # "armed"
    /\ ~listenerAttached[r]
    /\ ~subscribed[r]
    /\ \A sid \in SessionIds : ACTIVE_EMBEDDED_RUNS[sid] # r

\* C39: once the cleanup of a run has disposed its session, the run cannot be
\* reached any more (timers, listener, registry), and no step asks the session
\* to stop or queues a message for it.
C39_NoCallsAfterDispose ==
    [][\A r \in Runs :
          session[r] = "disposed" =>
             /\ DisposedRunUnreachable(r)
             /\ sessionAbortCalls'[r] = sessionAbortCalls[r]
             /\ queuedMessages'[r] = queuedMessages[r]
             /\ aborted'[r] = aborted[r]]_vars

\* A run that abortEmbeddedPiRun had reached was cleaned up with its timer still
\* pending, and a later queueEmbeddedPiMessage for its session id found no handle.
C39_Witness ==
    \E r \in Runs :
       /\ session[r] = "disposed"
       /\ abortTimer[r] = "cleared"
       /\ aborted[r] /\ ~signalAborted[r]
       /\ abortCallsLeft = 0
       /\ handleCall.fn = "queueEmbeddedPiMessage"
       /\ handleCall.sessionId = params[r].sessionId
       /\ handleCall.handle = 0
       /\ ~handleCall.returned

\* ---------------------------------------------------------------------------
\* Runs whose explicit global lane may be the session lane itself: a run of
\* session "a" with no session key and the default lane, one with the lane
\* "session:a" (its own session lane), and one of session "b" with a signal.
NestedInputs ==
    { i \in RunInputs : i.sessionKey = <<>> }
        \cup { [i EXCEPT !.lane = << "session:", "a" >>] :
                  i \in { j \in RunInputs : j.sessionKey = <<>> /\ j.sessionId = << "a" >> } }

NextNested ==
    \/ \E r \in Runs, inp \in NestedInputs : Submit(r, inp)
    \/ \E l \in LaneNames : DrainLane(l)
    \/ \E r \in Runs : RunStep(r)

SpecNested == Init /\ [][NextNested]_vars

\* The lanes start their next task and the bodies go on.
SpecNestedLive == SpecNested /\ EventLoopFairness

\* Every run submitted before r has finished.
EarlierRunsDone(r) == \A q \in 1..(r - 1) : pc[q] = "done"

\* C36: a submitted run whose predecessors have all finished eventually starts
\* its body, whatever its session key and its global lane are.
C36_NestedSubmissionStarts ==
    \A r \in Runs :
       (pc[r] \in { "queuedSession", "queuedGlobal" } /\ EarlierRunsDone(r))
          ~> (InBody(r) \/ pc[r] = "done")

\* ---------------------------------------------------------------------------
\* AppState's voice ears (macOS app): triggerVoiceEars and stopVoiceEars run on
\* the main actor; each trigger with a ttl starts a task that sleeps and then
\* clears the flag. Time is counted in ticks.

\* Number of timer tasks started, and the longest ttl, in ticks.
MaxEarTasks == 3
MaxTtl == 2

\* ttl: TimeInterval? -- nil, or a number of ticks.
NilTtl == [nil |-> TRUE, ticks |-> 0]
EarTtls == { NilTtl } \cup { [nil |-> FALSE, ticks |-> n] : n \in 1..MaxTtl }

\* earTtlLeft of a trigger without ttl: it never elapses.
Forever == MaxTtl + 1

otherVars ==
    << orchVars, compVars, streamVars, streamEvents, observerVars, streaming,
       processVars, silentCall, deliveryVars, handleVars >>

\* self.earBoostTask?.cancel()
CancelEarTask(tasks, t) ==
    IF t = 0 THEN tasks ELSE [tasks EXCEPT ![t].cancelled = TRUE]

\* func triggerVoiceEars(ttl: TimeInterval? = 5)
triggerVoiceEars(ttl) ==
    /\ ttl # NilTtl => Len(earTasks) < MaxEarTasks
    /\ earBoostActive' = TRUE
    /\ IF ttl = NilTtl
         THEN /\ earTasks' = CancelEarTask(earTasks, earBoostTask)
              /\ UNCHANGED earBoostTask
              /\ earTtlLeft' = Forever
         ELSE /\ earTasks' =
                   Append(CancelEarTask(earTasks, earBoostTask),
                          [phase |-> "sleeping", cancelled |-> FALSE, left |-> ttl.ticks])
              /\ earBoostTask' = Len(earTasks) + 1
              /\ earTtlLeft' = ttl.ticks
    /\ UNCHANGED otherVars

\* func stopVoiceEars()
stopVoiceEars ==
    /\ earTasks' = CancelEarTask(earTasks, earBoostTask)
    /\ earBoostTask' = 0
    /\ earBoostActive' = FALSE
    /\ earTtlLeft' = -1
    /\ UNCHANGED otherVars

\* One tick of time passes.
EarTick ==
    /\ \/ earTtlLeft \in 1..MaxTtl
       \/ \E t \in DOMAIN earTasks : earTasks[t].phase = "sleeping" /\ earTasks[t].left > 0
    /\ earTtlLeft' = IF earTtlLeft \in 1..MaxTtl THEN earTtlLeft - 1 ELSE earTtlLeft
    /\ earTasks' =
         [t \in DOMAIN earTasks |->
            IF earTasks[t].phase = "sleeping" /\ earTasks[t].left > 0
              THEN [earTasks[t] EXCEPT !.left = @ - 1] ELSE earTasks[t]]
    /\ UNCHANGED << earBoostActive, earBoostTask, otherVars >>

\* try? await Task.sleep(...) returns in task t: the time is over, or the task
\* was cancelled and try? drops the CancellationError.
EarSleepReturns(t) ==
    /\ earTasks[t].phase = "sleeping"
    /\ earTasks[t].left = 0 \/ earTasks[t].cancelled
    /\ earTasks' = [earTasks EXCEPT ![t].phase = "woken"]
    /\ UNCHANGED << earBoostActive, earBoostTask, earTtlLeft, otherVars >>

\* await MainActor.run { self?.earBoostActive = false } of task t
EarTaskClearsFlag(t) ==
    /\ earTasks[t].phase = "woken"
    /\ earTasks' = [earTasks EXCEPT ![t].phase = "finished"]
    /\ earBoostActive' = FALSE
    /\ UNCHANGED << earBoostTask, earTtlLeft, otherVars >>

NextEars ==
    \/ \E ttl \in EarTtls : triggerVoiceEars(ttl)
    \/ stopVoiceEars
    \/ EarTick
    \/ \E t \in DOMAIN earTasks : EarSleepReturns(t)
    \/ \E t \in DOMAIN earTasks : EarTaskClearsFlag(t)

SpecEars == Init /\ [][NextEars]_vars

\* C40: as long as the ttl of the most recent trigger has not elapsed and
\* stopVoiceEars has not been called since, earBoostActive is true.
C40_EarsStayBoosted == earTtlLeft > 0 => earBoostActive

====
